---- MODULE Spec2Model ----
(***************************************************************************)
(* Evacuation network model of eltifi/vectra.                              *)
(*                                                                         *)
(* EvacuationService.generate_network_graph builds a directed, capacitated *)
(* graph from road-segment rows (contraflow reversal included) and         *)
(* EvacuationService.calculate_max_flow computes the maximum flow between  *)
(* two of its nodes; the request handler run_simulation (GET /simulate)    *)
(* builds the graph, restricts it to its largest weakly connected          *)
(* component, picks the endpoints, runs the flow and derives the metrics.  *)
(* Around the core: the Redis cache wrapper (RedisCache) with its JSON      *)
(* serialization, the health report, wait_for_database and                 *)
(* initialize_database of the seeding module, and concurrent requests.     *)
(* Strings are sequences of one-character strings so that str.upper() and  *)
(* the `in` substring test are computed, not assumed.  Floats are modelled *)
(* by integers (capacities are multiples of 1 vph, clearance times are     *)
(* hundredths of an hour).                                                 *)
(***************************************************************************)
EXTENDS Integers, Sequences, FiniteSets, TLC

VARIABLES
    scenario,       \* argument `scenario` of generate_network_graph
    region,         \* argument `region` of generate_network_graph
    segments,       \* the rows returned by the query, in iteration order
    i,              \* number of rows the for-loop has consumed
    G,              \* the nx.DiGraph under construction / passed to max flow
    reversed_edge,  \* value of the local `reversed_edge` at the end of each iteration
    pc,             \* position: "loop" | "returned" | "raised" in generate_network_graph,
                    \* "graph" | "flow_done" | "flow_raised" in calculate_max_flow,
                    \* "request" | "trials" | "selected" | "metrics" | "responded" in run_simulation
                    \* "serving" while the API answers cache and health calls,
                    \* "wait_loop" | "wait_done" | "wait_raised" in wait_for_database,
                    \* "boot_idle" | "boot_check" | "boot_seed" | "boot_mpos" | "boot_done"
                    \* in initialize_database
    source_node,    \* argument of calculate_max_flow
    sink_node,      \* argument of calculate_max_flow
    flow_value,     \* value returned by calculate_max_flow
    flow_calls,     \* number of nx.maximum_flow_value invocations
    flow_logged,    \* number of "Max-flow algorithm error" log records
    subgraph,       \* local `subgraph` of run_simulation
    nodes,          \* local `nodes` of run_simulation: list(subgraph.nodes())
    trial,          \* iterations of `for _ in range(10)` started so far
    candidate,      \* local `candidate_source` of the latest iteration
    via,            \* how the endpoints were set: "none" | "trial" | "fallback"
    http_status,    \* status of the HTTP response: "none" | "200" | "404" | "500"
    response,       \* body of the successful response
    client,         \* RedisCache.client: "none" | "client"
    store,          \* the Redis server: key -> [data, ttl] of the live entries
    cache_call,     \* the latest RedisCache.get / set call and how it ended
    health,         \* the latest result of get_system_health
    max_retries,    \* argument of wait_for_database
    retry_delay,    \* argument of wait_for_database
    retries,        \* local `retries` of wait_for_database
    events,         \* calls made so far to the database, time.sleep, the
                    \* downloader and the ETL pipeline, in order
    wait_result,    \* how wait_for_database ended
    seeded,         \* whether road_segments holds rows with the required columns
    boot_result,    \* value returned by initialize_database
    requests,       \* the /simulate requests in progress, each with its locals
    graphs          \* the nx.DiGraph objects the requests in progress build

simVars == <<subgraph, nodes, trial, candidate, via, http_status, response>>

cacheVars == <<client, store, cache_call, health>>

bootVars == <<max_retries, retry_delay, retries, events, wait_result, seeded, boot_result>>

concVars == <<requests, graphs>>

auxVars == <<cacheVars, bootVars, concVars>>

vars == <<scenario, region, segments, i, G, reversed_edge, pc,
          source_node, sink_node, flow_value, flow_calls, flow_logged,
          subgraph, nodes, trial, candidate, via, http_status, response,
          client, store, cache_call, health,
          max_retries, retry_delay, retries, events, wait_result, seeded,
          boot_result, requests, graphs>>

(***************************************************************************)
(* Bounds of the model.                                                    *)
(***************************************************************************)
MaxNode == 2        \* topology node ids are 1..MaxNode
MaxSegs == 2        \* rows per query result in the history family
MaxFlowNode == 3    \* node ids of the graphs handed to calculate_max_flow
MaxEdges == 3       \* edges of the graphs handed to calculate_max_flow

(***************************************************************************)
(* Python values.                                                          *)
(***************************************************************************)
None == <<>>                    \* Python None / SQL NULL, as an empty option
Some(x) == <<x>>                \* a present value
Val(o) == o[1]

LowerCase == <<"a", "b", "c", "d", "e", "f", "g", "h", "i", "j", "k", "l", "m",
               "n", "o", "p", "q", "r", "s", "t", "u", "v", "w", "x", "y", "z">>
UpperCase == <<"A", "B", "C", "D", "E", "F", "G", "H", "I", "J", "K", "L", "M",
               "N", "O", "P", "Q", "R", "S", "T", "U", "V", "W", "X", "Y", "Z">>

\* str.upper() on one character
UpperChar(c) ==
    IF \E k \in 1..26 : LowerCase[k] = c
    THEN UpperCase[CHOOSE k \in 1..26 : LowerCase[k] = c]
    ELSE c

\* str.upper()
Upper(s) == [k \in 1..Len(s) |-> UpperChar(s[k])]

\* Python `needle in hay` for strings
Contains(needle, hay) ==
    \E k \in 0..(Len(hay) - Len(needle)) :
        \A j \in 1..Len(needle) : hay[k + j] = needle[j]

KW_MAJOR_HWY == <<"M", "A", "J", "O", "R", " ", "H", "W", "Y">>
KW_TAMPA == <<"T", "A", "M", "P", "A">>
KW_SARASOTA == <<"S", "A", "R", "A", "S", "O", "T", "A">>
KW_ORLANDO == <<"O", "R", "L", "A", "N", "D", "O">>
KW_DAYTONA == <<"D", "A", "Y", "T", "O", "N", "A">>
KW_LAKELAND == <<"L", "A", "K", "E", "L", "A", "N", "D">>
KW_MIAMI == <<"M", "I", "A", "M", "I">>
KW_SOUTH_FL == <<"S", "O", "U", "T", "H", " ", "F", "L">>
KW_PORT_ST_LUCIE == <<"P", "O", "R", "T", " ", "S", "T", ".", " ", "L", "U", "C", "I", "E">>
KW_MELBOURNE == <<"M", "E", "L", "B", "O", "U", "R", "N", "E">>
KW_CAPE_CORAL == <<"C", "A", "P", "E", " ", "C", "O", "R", "A", "L">>
KW_NAPLES == <<"N", "A", "P", "L", "E", "S">>
KW_FORT_MYERS == <<"F", "O", "R", "T", " ", "M", "Y", "E", "R", "S">>
KW_JACKSONVILLE == <<"J", "A", "C", "K", "S", "O", "N", "V", "I", "L", "L", "E">>
KW_TALLAHASSEE == <<"T", "A", "L", "L", "A", "H", "A", "S", "S", "E", "E">>
KW_PENSACOLA == <<"P", "E", "N", "S", "A", "C", "O", "L", "A">>

(***************************************************************************)
(* The directed graph (nx.DiGraph): nodes in insertion order, and the      *)
(* `capacity` and `cost` attributes of each edge <<u, v>>.                 *)
(***************************************************************************)
EmptyGraph == [nodes |-> <<>>, cap |-> [e \in {} |-> 0], cost |-> [e \in {} |-> None]]

Edges(g) == DOMAIN g.cap
NodeSet(g) == {g.nodes[k] : k \in 1..Len(g.nodes)}
HasEdge(g, u, v) == <<u, v>> \in Edges(g)

\* DiGraph.add_node as done inside add_edge: a new node goes last
AddNode(ns, n) == IF \E k \in 1..Len(ns) : ns[k] = n THEN ns ELSE Append(ns, n)

\* AddOrMergeEdge with `=` in place of `+=`: a later parallel segment
\* overwrites the capacity
AddOrMergeEdgeOverwrite(g, u, v, capacity, cost) ==
    IF HasEdge(g, u, v)
    THEN [g EXCEPT !.cap[<<u, v>>] = capacity]
    ELSE [nodes |-> AddNode(AddNode(g.nodes, u), v),
          cap   |-> [e \in Edges(g) \cup {<<u, v>>} |->
                        IF e = <<u, v>> THEN capacity ELSE g.cap[e]],
          cost  |-> [e \in Edges(g) \cup {<<u, v>>} |->
                        IF e = <<u, v>> THEN cost ELSE g.cost[e]]]

\* AddOrMergeEdge that also overwrites the cost annotation on a merge, so
\* that the cost of a merged edge is that of the last segment inserted
AddOrMergeEdgeLastCost(g, u, v, capacity, cost) ==
    IF HasEdge(g, u, v)
    THEN [g EXCEPT !.cap[<<u, v>>] = @ + capacity, !.cost[<<u, v>>] = cost]
    ELSE [nodes |-> AddNode(AddNode(g.nodes, u), v),
          cap   |-> [e \in Edges(g) \cup {<<u, v>>} |->
                        IF e = <<u, v>> THEN capacity ELSE g.cap[e]],
          cost  |-> [e \in Edges(g) \cup {<<u, v>>} |->
                        IF e = <<u, v>> THEN cost ELSE g.cost[e]]]

\* if G.has_edge(u, v): G[u][v]['capacity'] += capacity
\* else: G.add_edge(u, v, capacity=capacity, cost=seg.cost_time)
AddOrMergeEdge(g, u, v, capacity, cost) ==
    IF HasEdge(g, u, v)
    THEN [g EXCEPT !.cap[<<u, v>>] = @ + capacity]
    ELSE [nodes |-> AddNode(AddNode(g.nodes, u), v),
          cap   |-> [e \in Edges(g) \cup {<<u, v>>} |->
                        IF e = <<u, v>> THEN capacity ELSE g.cap[e]],
          cost  |-> [e \in Edges(g) \cup {<<u, v>>} |->
                        IF e = <<u, v>> THEN cost ELSE g.cost[e]]]

(***************************************************************************)
(* generate_network_graph, one row.                                        *)
(***************************************************************************)
DefaultCapacity == 1800

\* capacity = seg.capacity if seg.capacity else 1800.0   (Python truthiness:
\* None and 0 are false, every other number, negative ones included, is true)
ResolveCapacity(c) == IF c # None /\ Val(c) # 0 THEN Val(c) ELSE DefaultCapacity

\* IsMajor testing for "MAJOR" only
IsMajorLoose(road_name) ==
    /\ road_name # None
    /\ Val(road_name) # <<>>
    /\ Contains(<<"M", "A", "J", "O", "R">>, Upper(Val(road_name)))

\* is_major: seg.road_name is truthy and "MAJOR HWY" in seg.road_name.upper()
IsMajor(road_name) ==
    /\ road_name # None
    /\ Val(road_name) # <<>>
    /\ Contains(KW_MAJOR_HWY, Upper(Val(road_name)))

\* The geometry value of a row and what lines 126-131 make of it:
\*   "null"           NULL geometry: no `wkt`, no `desc`, no `coords`
\*   "str"            a plain WKT string: no `wkt`, no `desc`, no `coords`
\*   "shape"          a shapely geometry: has `wkt`, re-parsed, has `coords`
\*   "wkb"            a WKBElement (has `desc`) that shapely.wkb.loads parses
\*   "wkb_malformed"  a WKBElement (has `desc`) that shapely.wkb.loads rejects
\* Result: "raise" (exception), "nocoords" (no `coords` attribute) or the
\* coordinate list.
LoadLine(geom) ==
    CASE geom.kind = "wkb_malformed" -> [tag |-> "raise", coords |-> <<>>]
      [] geom.kind \in {"wkb", "shape"} -> [tag |-> "line", coords |-> geom.coords]
      [] OTHER -> [tag |-> "nocoords", coords |-> <<>>]

\* ShouldReverse whose Jacksonville rule reverses eastbound lanes only
ShouldReverseJaxEastOnly(reg, is_sb, is_wb, is_eb) ==
    LET R == Upper(reg) IN
    IF Contains(KW_TAMPA, R) \/ Contains(KW_SARASOTA, R)
    THEN is_sb \/ is_wb
    ELSE IF Contains(KW_ORLANDO, R) \/ Contains(KW_DAYTONA, R) \/ Contains(KW_LAKELAND, R)
    THEN is_sb \/ is_wb
    ELSE IF Contains(KW_MIAMI, R) \/ Contains(KW_SOUTH_FL, R)
            \/ Contains(KW_PORT_ST_LUCIE, R) \/ Contains(KW_MELBOURNE, R)
    THEN is_sb \/ is_eb
    ELSE IF Contains(KW_CAPE_CORAL, R) \/ Contains(KW_NAPLES, R) \/ Contains(KW_FORT_MYERS, R)
    THEN is_sb \/ is_eb
    ELSE IF Contains(KW_JACKSONVILLE, R)
    THEN is_eb
    ELSE IF Contains(KW_TALLAHASSEE, R) \/ Contains(KW_PENSACOLA, R)
    THEN is_sb \/ is_eb
    ELSE is_sb

\* ShouldReverse whose fallback rule also reverses westbound lanes
ShouldReverseFallbackWest(reg, is_sb, is_wb, is_eb) ==
    LET R == Upper(reg) IN
    IF Contains(KW_TAMPA, R) \/ Contains(KW_SARASOTA, R)
    THEN is_sb \/ is_wb
    ELSE IF Contains(KW_ORLANDO, R) \/ Contains(KW_DAYTONA, R) \/ Contains(KW_LAKELAND, R)
    THEN is_sb \/ is_wb
    ELSE IF Contains(KW_MIAMI, R) \/ Contains(KW_SOUTH_FL, R)
            \/ Contains(KW_PORT_ST_LUCIE, R) \/ Contains(KW_MELBOURNE, R)
    THEN is_sb \/ is_eb
    ELSE IF Contains(KW_CAPE_CORAL, R) \/ Contains(KW_NAPLES, R) \/ Contains(KW_FORT_MYERS, R)
    THEN is_sb \/ is_eb
    ELSE IF Contains(KW_JACKSONVILLE, R)
    THEN is_sb \/ is_eb
    ELSE IF Contains(KW_TALLAHASSEE, R) \/ Contains(KW_PENSACOLA, R)
    THEN is_sb \/ is_eb
    ELSE is_sb \/ is_wb

\* The region rule table of lines 147-180: should_reverse for a heading
ShouldReverse(reg, is_sb, is_wb, is_eb) ==
    LET R == Upper(reg) IN
    IF Contains(KW_TAMPA, R) \/ Contains(KW_SARASOTA, R)
    THEN is_sb \/ is_wb
    ELSE IF Contains(KW_ORLANDO, R) \/ Contains(KW_DAYTONA, R) \/ Contains(KW_LAKELAND, R)
    THEN is_sb \/ is_wb
    ELSE IF Contains(KW_MIAMI, R) \/ Contains(KW_SOUTH_FL, R)
            \/ Contains(KW_PORT_ST_LUCIE, R) \/ Contains(KW_MELBOURNE, R)
    THEN is_sb \/ is_eb
    ELSE IF Contains(KW_CAPE_CORAL, R) \/ Contains(KW_NAPLES, R) \/ Contains(KW_FORT_MYERS, R)
    THEN is_sb \/ is_eb
    ELSE IF Contains(KW_JACKSONVILLE, R)
    THEN is_sb \/ is_eb
    ELSE IF Contains(KW_TALLAHASSEE, R) \/ Contains(KW_PENSACOLA, R)
    THEN is_sb \/ is_eb
    ELSE is_sb

\* ReversalDecision without the `scenario == "contraflow"` test
ReversalDecisionAnyScenario(seg, scen, reg) ==
    IF IsMajor(seg.road_name)
    THEN LET line == LoadLine(seg.geom) IN
         CASE line.tag = "raise" -> "raise"
           [] line.tag = "nocoords" -> "keep"
           [] OTHER ->
               IF line.coords = <<>>
               THEN "raise"
               ELSE LET start_p == line.coords[1]
                        end_p == line.coords[Len(line.coords)]
                        dx == end_p[1] - start_p[1]
                        dy == end_p[2] - start_p[2]
                    IN IF ShouldReverse(reg, dy < 0, dx < 0, dx > 0)
                       THEN "reverse" ELSE "keep"
    ELSE "keep"

\* ReversalDecision that applies contraflow to every scenario but "baseline"
ReversalDecisionNotBaseline(seg, scen, reg) ==
    IF scen # "baseline" /\ IsMajor(seg.road_name)
    THEN LET line == LoadLine(seg.geom) IN
         CASE line.tag = "raise" -> "raise"
           [] line.tag = "nocoords" -> "keep"
           [] OTHER ->
               IF line.coords = <<>>
               THEN "raise"                       \* coords[0]: IndexError
               ELSE LET start_p == line.coords[1]
                        end_p == line.coords[Len(line.coords)]
                        dx == end_p[1] - start_p[1]
                        dy == end_p[2] - start_p[2]
                    IN IF ShouldReverse(reg, dy < 0, dx < 0, dx > 0)
                       THEN "reverse" ELSE "keep"
    ELSE "keep"

\* Lines 119-184: "keep", "reverse", or "raise" when an exception escapes
ReversalDecision(seg, scen, reg) ==
    IF scen = "contraflow" /\ IsMajor(seg.road_name)
    THEN LET line == LoadLine(seg.geom) IN
         CASE line.tag = "raise" -> "raise"
           [] line.tag = "nocoords" -> "keep"
           [] OTHER ->
               IF line.coords = <<>>
               THEN "raise"                       \* coords[0]: IndexError
               ELSE LET start_p == line.coords[1]
                        end_p == line.coords[Len(line.coords)]
                        dx == end_p[1] - start_p[1]
                        dy == end_p[2] - start_p[2]
                    IN IF ShouldReverse(reg, dy < 0, dx < 0, dx > 0)
                       THEN "reverse" ELSE "keep"
    ELSE "keep"

\* ProcessRow that skips a row only when both endpoints are missing
\* (`and` for `or`); add_edge then raises on the None node
ProcessRowSkipBothOnly(g, seg, scen, reg) ==
    IF seg.source = None /\ seg.target = None
    THEN [outcome |-> "skipped", G |-> g, reversed_edge |-> FALSE]
    ELSE IF seg.source = None \/ seg.target = None
    THEN [outcome |-> "raised", G |-> g, reversed_edge |-> FALSE]
    ELSE LET capacity == ResolveCapacity(seg.capacity)
             d == ReversalDecision(seg, scen, reg)
             u == IF d = "reverse" THEN Val(seg.target) ELSE Val(seg.source)
             v == IF d = "reverse" THEN Val(seg.source) ELSE Val(seg.target)
         IN IF d = "raise"
            THEN [outcome |-> "raised", G |-> g, reversed_edge |-> FALSE]
            ELSE [outcome |-> "added",
                  G |-> AddOrMergeEdge(g, u, v, capacity, seg.cost_time),
                  reversed_edge |-> (d = "reverse")]

\* ProcessRow that closes a reversed segment instead of re-orienting it:
\* the reversed row adds no edge
ProcessRowDropReversed(g, seg, scen, reg) ==
    IF seg.source = None \/ seg.target = None
    THEN [outcome |-> "skipped", G |-> g, reversed_edge |-> FALSE]
    ELSE LET capacity == ResolveCapacity(seg.capacity)
             d == ReversalDecision(seg, scen, reg)
         IN IF d = "raise"
            THEN [outcome |-> "raised", G |-> g, reversed_edge |-> FALSE]
            ELSE IF d = "reverse"
            THEN [outcome |-> "added", G |-> g, reversed_edge |-> TRUE]
            ELSE [outcome |-> "added",
                  G |-> AddOrMergeEdge(g, Val(seg.source), Val(seg.target),
                                       capacity, seg.cost_time),
                  reversed_edge |-> FALSE]

\* One iteration of the for-loop (lines 111-191) on graph g
ProcessRow(g, seg, scen, reg) ==
    IF seg.source = None \/ seg.target = None
    THEN [outcome |-> "skipped", G |-> g, reversed_edge |-> FALSE]
    ELSE LET capacity == ResolveCapacity(seg.capacity)
             d == ReversalDecision(seg, scen, reg)
             u == IF d = "reverse" THEN Val(seg.target) ELSE Val(seg.source)
             v == IF d = "reverse" THEN Val(seg.source) ELSE Val(seg.target)
         IN IF d = "raise"
            THEN [outcome |-> "raised", G |-> g, reversed_edge |-> FALSE]
            ELSE [outcome |-> "added",
                  G |-> AddOrMergeEdge(g, u, v, capacity, seg.cost_time),
                  reversed_edge |-> (d = "reverse")]

\* generate_network_graph as a function of its inputs: the loop over
\* segs[k..], started on graph g; an exception ends it
RECURSIVE BuildFrom(_, _, _, _, _)
BuildFrom(g, segs, k, scen, reg) ==
    IF k > Len(segs) THEN [raised |-> FALSE, G |-> g]
    ELSE LET r == ProcessRow(g, segs[k], scen, reg) IN
         IF r.outcome = "raised" THEN [raised |-> TRUE, G |-> g]
         ELSE BuildFrom(r.G, segs, k + 1, scen, reg)

BuildGraph(segs, scen, reg) == BuildFrom(EmptyGraph, segs, 1, scen, reg)

(***************************************************************************)
(* Inputs.                                                                 *)
(***************************************************************************)
RegionTampaBay == <<"T", "a", "m", "p", "a", " ", "B", "a", "y">>
RegionOrlando == <<"O", "r", "l", "a", "n", "d", "o">>
RegionMiami == <<"m", "i", "a", "m", "i">>
RegionNaples == <<"N", "a", "p", "l", "e", "s">>
RegionJacksonville == <<"J", "a", "c", "k", "s", "o", "n", "v", "i", "l", "l", "e">>
RegionPensacola == <<"P", "e", "n", "s", "a", "c", "o", "l", "a">>
RegionOcala == <<"O", "c", "a", "l", "a">>
RegionEmpty == <<>>
Regions == {RegionTampaBay, RegionOrlando, RegionMiami, RegionNaples,
            RegionJacksonville, RegionPensacola, RegionOcala, RegionEmpty}

\* "storm" stands for any value that is neither "baseline" nor "contraflow"
Scenarios == {"baseline", "contraflow", "storm"}

LabelMajor == <<"9", " ", "(", "M", "a", "j", "o", "r", " ", "H", "w", "y", ")">>
LabelToll == <<"9", " ", "(", "T", "o", "l", "l", ")">>
LabelMajorRoad == <<"M", "a", "j", "o", "r", " ", "H", "i", "g", "h", "w", "a", "y">>
Labels == {None, Some(<<>>), Some(LabelMajor), Some(LabelToll), Some(LabelMajorRoad)}

\* (lon, lat) points; a line starts at P0
P0 == <<-82, 28>>
LineTo(dx, dy) == <<P0, <<P0[1] + dx, P0[2] + dy>>>>
LineS == LineTo(0, -1)
LineN == LineTo(0, 1)
LineE == LineTo(1, 0)
LineW == LineTo(-1, 0)
LineNthenS == <<P0, <<P0[1], P0[2] + 1>>, <<P0[1], P0[2] - 1>>>>
CoordLists == {<<>>, <<P0>>, LineS, LineN, LineE, LineW, LineNthenS}

NullGeom == [kind |-> "null", coords |-> <<>>]
Geoms == {NullGeom,
          [kind |-> "str", coords |-> <<>>],
          [kind |-> "shape", coords |-> LineS],
          [kind |-> "wkb_malformed", coords |-> <<>>]}
         \cup {[kind |-> "wkb", coords |-> cs] : cs \in CoordLists}

NodeOpts == {None} \cup {Some(n) : n \in 1..MaxNode}
CapacityOpts == {None, Some(0), Some(-600), Some(3600)}

\* every row over the input sets
Rows == [source : NodeOpts, target : NodeOpts, capacity : CapacityOpts,
         cost_time : {Some(30)}, geom : Geoms, road_name : Labels]

Row(s, t, c, cost, g, name) ==
    [source |-> s, target |-> t, capacity |-> c, cost_time |-> cost,
     geom |-> g, road_name |-> name]

\* the row already in the graph when a row of Rows is processed second
PriorRow == Row(Some(1), Some(2), Some(3600), Some(45), NullGeom, Some(LabelToll))

\* rows of the history family: every endpoint pair, the three null-endpoint
\* shapes, and three kinds of segment
HistEndpoints ==
    {<<Some(a), Some(b)>> : a \in 1..MaxNode, b \in 1..MaxNode}
    \cup {<<None, Some(1)>>, <<Some(1), None>>, <<None, None>>}
HistRows ==
    UNION {{Row(e[1], e[2], Some(3600), Some(30), [kind |-> "wkb", coords |-> LineS], Some(LabelMajor)),
            Row(e[1], e[2], None, Some(45), NullGeom, None),
            Row(e[1], e[2], Some(-600), Some(60), [kind |-> "wkb", coords |-> LineN], Some(LabelMajor))}
           : e \in HistEndpoints}

(***************************************************************************)
(* generate_network_graph as a state machine: one step per loop iteration. *)
(***************************************************************************)
FlowIdle ==
    /\ source_node = None
    /\ sink_node = None
    /\ flow_value = None
    /\ flow_calls = 0
    /\ flow_logged = 0

\* no simulation request has touched its locals
SimIdle ==
    /\ subgraph = None
    /\ nodes = <<>>
    /\ trial = 0
    /\ candidate = None
    /\ via = "none"
    /\ http_status = "none"
    /\ response = None

\* RedisCache as constructed (client = None, line 27), nothing stored, no
\* call made, no health report
CacheIdle ==
    /\ client = "none"
    /\ store = <<>>
    /\ cache_call = None
    /\ health = None

\* neither wait_for_database nor initialize_database has been called
BootIdle ==
    /\ max_retries = 0
    /\ retry_delay = 0
    /\ retries = 0
    /\ events = <<>>
    /\ wait_result = None
    /\ seeded = FALSE
    /\ boot_result = None

\* no /simulate request is in progress
ConcIdle ==
    /\ requests = <<>>
    /\ graphs = <<>>

AuxIdle == CacheIdle /\ BootIdle /\ ConcIdle

BuildStart ==
    /\ i = 0
    /\ G = EmptyGraph
    /\ reversed_edge = <<>>
    /\ pc = "loop"
    /\ FlowIdle
    /\ SimIdle
    /\ AuxIdle

\* query results of up to MaxSegs rows
Init ==
    /\ scenario \in {"baseline", "contraflow"}
    /\ region = RegionTampaBay
    /\ \E k \in 0..MaxSegs : segments \in [1..k -> HistRows]
    /\ BuildStart

\* one row of the full input product, alone or after PriorRow
InitRow ==
    /\ scenario \in Scenarios
    /\ region \in Regions
    /\ \E r \in Rows : segments = <<r>> \/ segments = <<PriorRow, r>>
    /\ BuildStart

\* for seg in segments: ...   (lines 111-191)
ProcessSegment ==
    /\ pc = "loop"
    /\ i < Len(segments)
    /\ LET r == ProcessRow(G, segments[i + 1], scenario, region) IN
         /\ G' = r.G
         /\ reversed_edge' = Append(reversed_edge, r.reversed_edge)
         /\ pc' = IF r.outcome = "raised" THEN "raised" ELSE "loop"
    /\ i' = i + 1
    /\ UNCHANGED <<scenario, region, segments, source_node, sink_node,
                   flow_value, flow_calls, flow_logged>>
    /\ UNCHANGED simVars
    /\ UNCHANGED auxVars

\* return G   (line 193)
ReturnGraph ==
    /\ pc = "loop"
    /\ i = Len(segments)
    /\ pc' = "returned"
    /\ UNCHANGED <<scenario, region, segments, i, G, reversed_edge,
                   source_node, sink_node, flow_value, flow_calls, flow_logged>>
    /\ UNCHANGED simVars
    /\ UNCHANGED auxVars

Next == ProcessSegment \/ ReturnGraph

Spec == Init /\ [][Next]_vars
SpecRow == InitRow /\ [][Next]_vars

\* query results of up to MaxSegs rows that share node pairs: two roads
\* from 1 to 2 with different costs, a southbound major road from 2 to 1,
\* and a row without a source
OrderRows ==
    {Row(Some(1), Some(2), Some(3600), Some(30), NullGeom, None),
     Row(Some(1), Some(2), None, Some(45), NullGeom, None),
     Row(Some(2), Some(1), Some(3600), Some(60), [kind |-> "wkb", coords |-> LineS], Some(LabelMajor)),
     Row(None, Some(1), Some(3600), Some(30), NullGeom, None)}

InitOrder ==
    /\ scenario \in {"baseline", "contraflow"}
    /\ region = RegionTampaBay
    /\ \E k \in 0..MaxSegs : segments \in [1..k -> OrderRows]
    /\ BuildStart

SpecOrder == InitOrder /\ [][Next]_vars

(***************************************************************************)
(* calculate_max_flow.                                                     *)
(***************************************************************************)
\* NotInGraph that only rejects None
NotInGraphNoneOnly(g, n) == n = None

\* `n not in graph` for an optional node id (None is never a node)
NotInGraph(g, n) == n = None \/ Val(n) \notin NodeSet(g)

\* Residual that lets an edge carry flow in both directions
ResidualUndirected(g) ==
    [e \in NodeSet(g) \X NodeSet(g) |->
        IF e \in Edges(g) /\ e[1] # e[2] /\ g.cap[e] > 0 THEN g.cap[e]
        ELSE IF <<e[2], e[1]>> \in Edges(g) /\ e[1] # e[2] /\ g.cap[<<e[2], e[1]>>] > 0
        THEN g.cap[<<e[2], e[1]>>]
        ELSE 0]

\* The residual capacities nx builds: an edge counts when it is no self-loop
\* and its capacity is positive; every other pair has residual 0.
Residual(g) ==
    [e \in NodeSet(g) \X NodeSet(g) |->
        IF e \in Edges(g) /\ e[1] # e[2] /\ g.cap[e] > 0 THEN g.cap[e] ELSE 0]

\* Breadth-first layers from the last layer of `layers` in residual r
RECURSIVE Layers(_, _, _, _)
Layers(r, N, layers, seen) ==
    LET last == layers[Len(layers)]
        next == {v \in N \ seen : \E u \in last : r[<<u, v>>] > 0}
    IN IF next = {} THEN layers ELSE Layers(r, N, Append(layers, next), seen \cup next)

\* A shortest augmenting path ending in v, v being in layer k
RECURSIVE PathBack(_, _, _, _)
PathBack(r, layers, k, v) ==
    IF k = 1 THEN <<v>>
    ELSE LET u == CHOOSE w \in layers[k - 1] : r[<<w, v>>] > 0
         IN Append(PathBack(r, layers, k - 1, u), v)

RECURSIVE MinResidual(_, _, _)
MinResidual(r, p, k) ==
    IF k = Len(p) - 1 THEN r[<<p[k], p[k + 1]>>]
    ELSE LET m == MinResidual(r, p, k + 1)
             c == r[<<p[k], p[k + 1]>>]
         IN IF c < m THEN c ELSE m

\* Push b units along path p: forward residuals shrink, backward ones grow
Augment(r, p, b) ==
    [e \in DOMAIN r |->
        IF \E k \in 1..(Len(p) - 1) : e = <<p[k], p[k + 1]>> THEN r[e] - b
        ELSE IF \E k \in 1..(Len(p) - 1) : e = <<p[k + 1], p[k]>> THEN r[e] + b
        ELSE r[e]]

\* Augmenting-path maximum flow (Edmonds-Karp), the value accumulated so far
\* being `total`
RECURSIVE EdmondsKarp(_, _, _, _, _)
EdmondsKarp(r, N, s, t, total) ==
    LET layers == Layers(r, N, <<{s}>>, {s})
        hit == {k \in 1..Len(layers) : t \in layers[k]}
    IN IF hit = {} THEN total
       ELSE LET k == CHOOSE x \in hit : TRUE
                p == PathBack(r, layers, k, t)
                b == MinResidual(r, p, 1)
            IN EdmondsKarp(Augment(r, p, b), N, s, t, total + b)

\* nx.maximum_flow_value(graph, s, t, capacity='capacity'): raises
\* NetworkXError when s or t is no node of the graph or when s = t
MaximumFlowValue(g, s, t) ==
    IF s \notin NodeSet(g) \/ t \notin NodeSet(g) \/ s = t
    THEN [raised |-> TRUE, value |-> 0]
    ELSE [raised |-> FALSE, value |-> EdmondsKarp(Residual(g), NodeSet(g), s, t, 0)]

\* The graphs handed to calculate_max_flow: up to MaxEdges edges between
\* distinct nodes of 1..MaxFlowNode, nodes listed in ascending order
FlowNodes == 1..MaxFlowNode
FlowPairs == {e \in FlowNodes \X FlowNodes : e[1] # e[2]}
FlowCaps == {-600, 1800, 3600}
RECURSIVE Ascending(_)
Ascending(S) ==
    IF S = {} THEN <<>>
    ELSE LET m == CHOOSE x \in S : \A y \in S : y <= x
         IN Append(Ascending(S \ {m}), m)
GraphOf(capfn) ==
    [nodes |-> Ascending({e[1] : e \in DOMAIN capfn} \cup {e[2] : e \in DOMAIN capfn}),
     cap   |-> capfn,
     cost  |-> [e \in DOMAIN capfn |-> Some(30)]]
FlowEdgeSets == {X \in SUBSET FlowPairs : Cardinality(X) <= MaxEdges}

\* the node arguments tried: None, every node id, and one id beyond them
NodeArgs == {None} \cup {Some(n) : n \in 1..(MaxFlowNode + 1)}

InitFlow ==
    /\ scenario = "baseline"
    /\ region = RegionTampaBay
    /\ segments = <<>>
    /\ i = 0
    /\ reversed_edge = <<>>
    /\ \E E \in FlowEdgeSets : \E c \in [E -> FlowCaps] : G = GraphOf(c)
    /\ pc = "graph"
    /\ FlowIdle
    /\ SimIdle
    /\ AuxIdle

\* try/except of lines 254-264 without the except clause: the fault escapes
GuardedMaxFlowNoCatch(g, s, t) ==
    LET r == MaximumFlowValue(g, s, t) IN
    [propagated |-> r.raised, value |-> r.value, logged |-> 0]

\* try: nx.maximum_flow_value(...)  except Exception: logger.error(...);
\* return 0   (lines 254-264).  Every fault nx raises derives from Exception.
GuardedMaxFlow(g, s, t) ==
    LET r == MaximumFlowValue(g, s, t) IN
    IF r.raised THEN [propagated |-> FALSE, value |-> 0, logged |-> 1]
    ELSE [propagated |-> FALSE, value |-> r.value, logged |-> 0]

\* calculate_max_flow(graph, source_node, sink_node) as a function
\* (lines 250-264): whether a fault escaped, the value returned, and how
\* many times nx.maximum_flow_value and logger.error were called
MaxFlowCall(g, s, t) ==
    IF NotInGraph(g, s) \/ NotInGraph(g, t)
    THEN [propagated |-> FALSE, value |-> 0, calls |-> 0, logged |-> 0]
    ELSE LET r == GuardedMaxFlow(g, Val(s), Val(t)) IN
         [propagated |-> r.propagated, value |-> r.value,
          calls |-> 1, logged |-> r.logged]

\* calculate_max_flow(graph, source_node, sink_node)   (lines 250-264)
CalculateMaxFlow(s, t) ==
    /\ pc = "graph"
    /\ source_node' = s
    /\ sink_node' = t
    /\ LET r == MaxFlowCall(G, s, t) IN
         /\ flow_calls' = flow_calls + r.calls
         /\ flow_logged' = flow_logged + r.logged
         /\ flow_value' = IF r.propagated THEN None ELSE Some(r.value)
         /\ pc' = IF r.propagated THEN "flow_raised" ELSE "flow_done"
    /\ UNCHANGED <<scenario, region, segments, i, G, reversed_edge>>
    /\ UNCHANGED simVars
    /\ UNCHANGED auxVars

NextFlow == \E s \in NodeArgs, t \in NodeArgs : CalculateMaxFlow(s, t)

SpecFlow == InitFlow /\ [][NextFlow]_vars

(***************************************************************************)
(* RedisCache (app/core/cache.py) and the health report                    *)
(* (app/core/health.py).  A Python value is a record [tag, atom, items]:   *)
(* tag is the Python type, atom the text of a str or int, items the        *)
(* elements of a list or tuple, or the (key, value) items of a dict.  A    *)
(* stored string is kept as the JSON document it spells, in the same       *)
(* shape with the JSON types as tags.                                      *)
(***************************************************************************)
PyNone == [tag |-> "NoneType", atom |-> "", items |-> <<>>]
PyStr(s) == [tag |-> "str", atom |-> s, items |-> <<>>]
PyInt(digits) == [tag |-> "int", atom |-> digits, items |-> <<>>]
PyList(xs) == [tag |-> "list", atom |-> "", items |-> xs]
PyTuple(xs) == [tag |-> "tuple", atom |-> "", items |-> xs]
PyItem(k, v) == [tag |-> "item", atom |-> "", items |-> <<k, v>>]
PyDict(kvs) == [tag |-> "dict", atom |-> "", items |-> kvs]
PySet(xs) == [tag |-> "set", atom |-> "", items |-> xs]

\* bool(v)
Truthy(v) ==
    CASE v.tag = "NoneType" -> FALSE
      [] v.tag = "str" -> v.atom # ""
      [] v.tag = "int" -> v.atom # "0"
      [] OTHER -> v.items # <<>>

\* whether json.dumps(v) returns: it raises TypeError on a value that is
\* not None, str, int, list, tuple or dict, and on a dict key that is not
\* a str, int or None
RECURSIVE Serializable(_)
Serializable(v) ==
    CASE v.tag \in {"NoneType", "str", "int"} -> TRUE
      [] v.tag \in {"list", "tuple"} ->
            \A k \in 1..Len(v.items) : Serializable(v.items[k])
      [] v.tag = "dict" ->
            \A k \in 1..Len(v.items) :
                /\ v.items[k].items[1].tag \in {"NoneType", "str", "int"}
                /\ Serializable(v.items[k].items[2])
      [] OTHER -> FALSE

\* the text json.dumps writes for a dict key
KeyText(k) == IF k.tag = "NoneType" THEN "null" ELSE k.atom

\* json.dumps(v), for a serializable v: lists and tuples both become
\* arrays, every dict key becomes a string
RECURSIVE JsonDumps(_)
JsonDumps(v) ==
    CASE v.tag = "NoneType" -> [tag |-> "null", atom |-> "", items |-> <<>>]
      [] v.tag = "str" -> [tag |-> "string", atom |-> v.atom, items |-> <<>>]
      [] v.tag = "int" -> [tag |-> "number", atom |-> v.atom, items |-> <<>>]
      [] v.tag \in {"list", "tuple"} ->
            [tag |-> "array", atom |-> "",
             items |-> [k \in 1..Len(v.items) |-> JsonDumps(v.items[k])]]
      [] v.tag = "dict" ->
            [tag |-> "object", atom |-> "",
             items |-> [k \in 1..Len(v.items) |->
                          [tag |-> "member", atom |-> KeyText(v.items[k].items[1]),
                           items |-> <<JsonDumps(v.items[k].items[2])>>]]]

\* a stored string that is not JSON
NotJson == [tag |-> "invalid", atom |-> "", items |-> <<>>]

\* json.loads(d), for a string d that is JSON: arrays become lists,
\* objects become dicts with str keys
RECURSIVE JsonLoads(_)
JsonLoads(d) ==
    CASE d.tag = "null" -> PyNone
      [] d.tag = "string" -> PyStr(d.atom)
      [] d.tag = "number" -> PyInt(d.atom)
      [] d.tag = "array" ->
            PyList([k \in 1..Len(d.items) |-> JsonLoads(d.items[k])])
      [] d.tag = "object" ->
            PyDict([k \in 1..Len(d.items) |->
                      PyItem(PyStr(d.items[k].atom), JsonLoads(d.items[k].items[1]))])

\* st with the entry (data, ttl) under key: SETEX key ttl data
Setex(st, key, ttl, data) ==
    [k \in DOMAIN st \cup {key} |->
        IF k = key THEN [data |-> data, ttl |-> ttl] ELSE st[k]]

\* st without the entry under key
Without(st, key) == [k \in DOMAIN st \ {key} |-> st[k]]

\* RedisCache.get without its try/except: a failing client.get or
\* json.loads reaches the caller
CacheGetNoCatch(cl, st, key, fault) ==
    IF cl = "none" THEN [raised |-> FALSE, result |-> PyNone]
    ELSE IF fault THEN [raised |-> TRUE, result |-> PyNone]
    ELSE IF key \notin DOMAIN st THEN [raised |-> FALSE, result |-> PyNone]
    ELSE IF st[key].data = NotJson THEN [raised |-> TRUE, result |-> PyNone]
    ELSE [raised |-> FALSE, result |-> JsonLoads(st[key].data)]

\* RedisCache.get(key)   (lines 60-73): fault says that client.get raises
CacheGet(cl, st, key, fault) ==
    IF cl = "none" THEN [raised |-> FALSE, result |-> PyNone]
    ELSE IF fault THEN [raised |-> FALSE, result |-> PyNone]
    ELSE IF key \notin DOMAIN st THEN [raised |-> FALSE, result |-> PyNone]
    ELSE IF st[key].data = NotJson THEN [raised |-> FALSE, result |-> PyNone]
    ELSE [raised |-> FALSE, result |-> JsonLoads(st[key].data)]

\* RedisCache.set(key, value, ttl)   (lines 75-85): fault says that
\* client.setex raises
CacheSet(cl, st, key, value, ttl, fault) ==
    IF cl = "none" THEN [raised |-> FALSE, store |-> st]
    ELSE IF ~Serializable(value) THEN [raised |-> FALSE, store |-> st]
    ELSE IF fault THEN [raised |-> FALSE, store |-> st]
    ELSE [raised |-> FALSE, store |-> Setex(st, key, ttl, JsonDumps(value))]

\* cache_key = f"api:simulate:{scenario}:{region}"   (line 212), kept as
\* its three parts
SimulateKey(scen, reg) == <<"api:simulate", scen, reg>>

\* cache_key = "api:segments:geojson"   (line 55)
SegmentsKey == <<"api:segments:geojson", "", <<>>>>

HealthStatus == {"healthy", "degraded", "unhealthy"}

\* check_database   (lines 37-70): the outcome of SELECT 1
CheckDatabase(outcome) ==
    CASE outcome = "ok" -> "healthy"
      [] outcome = "OperationalError" -> "unhealthy"
      [] OTHER -> "degraded"

\* check_cache   (lines 73-103): ping says whether client.ping returns
CheckCache(cl, ping) ==
    IF cl = "none" THEN "unhealthy"
    ELSE IF ping THEN "healthy"
    ELSE "degraded"

\* the overall status of get_system_health   (lines 121-127)
OverallStatus(db_status, cache_status) ==
    IF db_status = "unhealthy" THEN "unhealthy"
    ELSE IF db_status = "degraded" \/ cache_status = "degraded" THEN "degraded"
    ELSE "healthy"

\* the process is serving requests; the other programs are not running
Serving ==
    /\ pc = "serving"
    /\ scenario = "baseline"
    /\ region = RegionEmpty
    /\ segments = <<>>
    /\ i = 0
    /\ G = EmptyGraph
    /\ reversed_edge = <<>>
    /\ FlowIdle
    /\ SimIdle

\* await cache.connect()   (lines 33-50): the ping returns or raises
CacheConnect ==
    /\ pc = "serving"
    /\ \E ping \in BOOLEAN : client' = IF ping THEN "client" ELSE "none"
    /\ UNCHANGED <<store, cache_call, health>>
    /\ UNCHANGED <<scenario, region, segments, i, G, reversed_edge, pc,
                   source_node, sink_node, flow_value, flow_calls, flow_logged>>
    /\ UNCHANGED <<simVars, bootVars, concVars>>

\* await cache.close()   (lines 52-58): the client object stays in place
CacheClose ==
    /\ pc = "serving"
    /\ client = "client"
    /\ client' = "closed"
    /\ UNCHANGED <<store, cache_call, health>>
    /\ UNCHANGED <<scenario, region, segments, i, G, reversed_edge, pc,
                   source_node, sink_node, flow_value, flow_calls, flow_logged>>
    /\ UNCHANGED <<simVars, bootVars, concVars>>

\* await cache.get(key)
CacheGetCall(key) ==
    /\ pc = "serving"
    /\ \E fault \in BOOLEAN :
          LET r == CacheGet(client, store, key, fault) IN
              cache_call' = Some([op |-> "get", key |-> key, value |-> PyNone,
                                  ttl |-> 0, client |-> client, fault |-> fault,
                                  raised |-> r.raised, result |-> r.result])
    /\ UNCHANGED <<client, store, health>>
    /\ UNCHANGED <<scenario, region, segments, i, G, reversed_edge, pc,
                   source_node, sink_node, flow_value, flow_calls, flow_logged>>
    /\ UNCHANGED <<simVars, bootVars, concVars>>

\* await cache.set(key, value, ttl)
CacheSetCall(key, value, ttl) ==
    /\ pc = "serving"
    /\ \E fault \in BOOLEAN :
          LET r == CacheSet(client, store, key, value, ttl, fault) IN
              /\ store' = r.store
              /\ cache_call' = Some([op |-> "set", key |-> key, value |-> value,
                                     ttl |-> ttl, client |-> client, fault |-> fault,
                                     raised |-> r.raised, result |-> PyNone])
    /\ UNCHANGED <<client, health>>
    /\ UNCHANGED <<scenario, region, segments, i, G, reversed_edge, pc,
                   source_node, sink_node, flow_value, flow_calls, flow_logged>>
    /\ UNCHANGED <<simVars, bootVars, concVars>>

\* the Redis server drops the entry under key when its TTL has elapsed
EntryExpires(key) ==
    /\ pc = "serving"
    /\ key \in DOMAIN store
    /\ store' = Without(store, key)
    /\ UNCHANGED <<client, cache_call, health>>
    /\ UNCHANGED <<scenario, region, segments, i, G, reversed_edge, pc,
                   source_node, sink_node, flow_value, flow_calls, flow_logged>>
    /\ UNCHANGED <<simVars, bootVars, concVars>>

\* get_system_health   (lines 106-136)
GetSystemHealth ==
    /\ pc = "serving"
    /\ \E outcome \in {"ok", "OperationalError", "Exception"}, ping \in BOOLEAN :
          LET db_status == CheckDatabase(outcome)
              cache_status == CheckCache(client, ping)
          IN health' = Some([status |-> OverallStatus(db_status, cache_status),
                             database |-> db_status,
                             cache |-> cache_status])
    /\ UNCHANGED <<client, store, cache_call>>
    /\ UNCHANGED <<scenario, region, segments, i, G, reversed_edge, pc,
                   source_node, sink_node, flow_value, flow_calls, flow_logged>>
    /\ UNCHANGED <<simVars, bootVars, concVars>>

\* the keys and values of the calls: the dict of tests/test_cache.py, a
\* body with a tuple in it, a dict with an int key, a set and None
CacheKeys == {SimulateKey("baseline", RegionTampaBay), SegmentsKey}
CacheValues ==
    {PyDict(<<PyItem(PyStr("foo"), PyStr("bar"))>>),
     PyDict(<<PyItem(PyStr("size"), PyTuple(<<PyInt("1"), PyInt("2")>>))>>),
     PyDict(<<PyItem(PyInt("7"), PyStr("bar"))>>),
     PySet(<<PyInt("1")>>),
     PyNone}
Ttls == {60, 3600}

\* the cache as constructed; the server holds nothing or an entry written
\* by another program that is not JSON
InitCache ==
    /\ Serving
    /\ client = "none"
    /\ store \in {<<>>, Setex(<<>>, SegmentsKey, 60, NotJson)}
    /\ cache_call = None
    /\ health = None
    /\ BootIdle
    /\ ConcIdle

NextCache ==
    \/ CacheConnect
    \/ CacheClose
    \/ \E key \in CacheKeys : CacheGetCall(key)
    \/ \E key \in CacheKeys, value \in CacheValues, ttl \in Ttls :
          CacheSetCall(key, value, ttl)
    \/ \E key \in CacheKeys : EntryExpires(key)

SpecCache == InitCache /\ [][NextCache]_vars

\* health reports taken while the cache is connected, closed, read and
\* losing entries
NextHealth ==
    \/ CacheConnect
    \/ CacheClose
    \/ \E key \in CacheKeys : CacheGetCall(key)
    \/ \E key \in CacheKeys : EntryExpires(key)
    \/ GetSystemHealth

SpecHealth == InitCache /\ [][NextHealth]_vars

(***************************************************************************)
(* run_simulation (GET /simulate).                                         *)
(***************************************************************************)
MaxTrials == 10             \* for _ in range(10)
MinReachable == 50          \* if len(descendants) > 50
CriticalBelow == 1000       \* "CRITICAL" if flow_value < 1000
DefaultClearanceHours == 24 \* clearance_time_hours = 24.0
Population == 1000000       \* 1000000 / flow_value

\* the nodes a traversal that follows edges in both directions reaches from S
RECURSIVE WeakReach(_, _)
WeakReach(E, S) ==
    LET S2 == S \cup {e[2] : e \in {x \in E : x[1] \in S}}
                \cup {e[1] : e \in {x \in E : x[2] \in S}}
    IN IF S2 = S THEN S ELSE WeakReach(E, S2)

\* nx.weakly_connected_components(g): the component of each node not seen
\* before, nodes taken in the graph's node order
RECURSIVE ComponentsFrom(_, _, _)
ComponentsFrom(g, k, seen) ==
    IF k > Len(g.nodes) THEN <<>>
    ELSE IF g.nodes[k] \in seen THEN ComponentsFrom(g, k + 1, seen)
    ELSE LET c == WeakReach(Edges(g), {g.nodes[k]})
         IN <<c>> \o ComponentsFrom(g, k + 1, seen \cup c)
WeaklyConnectedComponents(g) == ComponentsFrom(g, 1, {})

\* nx.is_weakly_connected(g) for a graph with at least one node
IsWeaklyConnected(g) == Len(WeaklyConnectedComponents(g)) = 1

\* max(components, key=len) that returns the last component listed
LargestCCLast(g) ==
    LET cs == WeaklyConnectedComponents(g) IN cs[Len(cs)]

\* max(nx.weakly_connected_components(g), key=len): the first component of
\* maximal size
LargestCC(g) ==
    LET cs == WeaklyConnectedComponents(g)
        k == CHOOSE j \in 1..Len(cs) :
                /\ \A m \in 1..Len(cs) : Cardinality(cs[m]) <= Cardinality(cs[j])
                /\ \A m \in 1..(j - 1) : Cardinality(cs[m]) < Cardinality(cs[j])
    IN cs[k]

\* the subgraph of g induced by ns, its nodes listed in the given order
Induced(g, ns, order) ==
    LET E == {e \in Edges(g) : e[1] \in ns /\ e[2] \in ns}
    IN [nodes |-> order,
        cap   |-> [e \in E |-> g.cap[e]],
        cost  |-> [e \in E |-> g.cost[e]]]

InNodes(ns, n) == n \in ns

\* g.subgraph(ns).copy(): the copy lists the nodes as the subgraph view
\* iterates them, which is the graph's own order, or the iteration order of
\* the set ns (ascending for small integer ids) where the view walks the
\* set because it holds fewer than half of the graph's nodes
SubgraphCopies(g, ns) ==
    {Induced(g, ns, SelectSeq(g.nodes, LAMBDA n : InNodes(ns, n)))}
    \cup (IF 2 * Cardinality(ns) < Len(g.nodes)
          THEN {Induced(g, ns, Ascending(ns))} ELSE {})

\* breadth-first search along directed edges
RECURSIVE BfsFrom(_, _, _)
BfsFrom(E, frontier, seen) ==
    LET next == {e[2] : e \in {x \in E : x[1] \in frontier}} \ seen
    IN IF next = {} THEN seen ELSE BfsFrom(E, next, seen \cup next)

\* descendants that count the start node itself among the reachable nodes
DescendantsWithSelf(g, s) == BfsFrom(Edges(g), {s}, {s})

\* nx.descendants(g, s): the nodes reachable from s, s itself excluded
Descendants(g, s) == BfsFrom(Edges(g), {s}, {s}) \ {s}

\* the acceptance test of a trial with the comparison relaxed to >=
AcceptsAtThreshold(descendants) == Cardinality(descendants) >= MinReachable

\* if len(descendants) > 50   (line 249)
Accepts(descendants) == Cardinality(descendants) > MinReachable

\* the fallback choice that takes the first node for both endpoints
FallbackEndpointsFirstOnly(ns) == <<ns[1], ns[1]>>

\* source_node = nodes[0]; sink_node = nodes[-1]   (lines 258-259)
FallbackEndpoints(ns) == <<ns[1], ns[Len(ns)]>>

\* round(n / d, 2) in hundredths for n >= 0, d > 0: Python rounds a tie to
\* the even neighbour
RoundHundredths(n, d) ==
    LET q == (100 * n) \div d
        r == (100 * n) % d
    IN IF 2 * r < d THEN q
       ELSE IF 2 * r > d THEN q + 1
       ELSE IF q % 2 = 0 THEN q ELSE q + 1

\* round(clearance_time_hours, 2) without the rounding: the quotient cut
\* to whole hours
ClearanceHundredthsTruncated(flow) ==
    IF flow > 0 THEN 100 * (Population \div flow)
    ELSE 100 * DefaultClearanceHours

\* round(clearance_time_hours, 2), in hundredths of an hour   (lines 273-280)
ClearanceHundredths(flow) ==
    IF flow > 0 THEN RoundHundredths(Population, flow)
    ELSE 100 * DefaultClearanceHours

\* the risk tier with the boundary value counted as critical
GridlockRiskInclusive(flow) == IF flow <= CriticalBelow THEN "CRITICAL" ELSE "MODERATE"

\* gridlock_risk = "CRITICAL" if flow_value < 1000 else "MODERATE"   (line 272)
GridlockRisk(flow) == IF flow < CriticalBelow THEN "CRITICAL" ELSE "MODERATE"

\* the emptiness test that lets every graph pass
GraphIsEmptyNever(g) == FALSE

\* graph.number_of_nodes() == 0   (line 227)
GraphIsEmpty(g) == Len(g.nodes) = 0

\* the request up to the node listing (lines 209-236): return the cached
\* result if the lookup gives a truthy value (lines 212-216, fault says that
\* client.get raises); otherwise build the graph, reject an empty one,
\* restrict a disconnected one to its largest weakly connected component.
SimStart ==
    /\ pc = "request"
    /\ \E fault \in BOOLEAN :
       LET cached_result == CacheGet(client, store, SimulateKey(scenario, region), fault).result
           b == BuildGraph(segments, scenario, region)
       IN IF Truthy(cached_result)
          THEN /\ response' = Some(cached_result)
               /\ http_status' = "200"
               /\ pc' = "responded"
               /\ UNCHANGED <<G, subgraph, nodes>>
          ELSE
         /\ UNCHANGED response
         /\ G' = b.G
         /\ IF b.raised
            THEN \* raised outside the try block: the generic handler answers
                 /\ http_status' = "500"
                 /\ pc' = "responded"
                 /\ UNCHANGED <<subgraph, nodes>>
            ELSE IF GraphIsEmpty(b.G)
            THEN \* raise HTTPException(status_code=404, ...), re-raised at 263-264
                 /\ http_status' = "404"
                 /\ pc' = "responded"
                 /\ UNCHANGED <<subgraph, nodes>>
            ELSE IF NodeSet(b.G) = {}
            THEN \* nx.is_weakly_connected raises on a graph without nodes;
                 \* lines 265-266 turn any such fault into a 500
                 /\ http_status' = "500"
                 /\ pc' = "responded"
                 /\ UNCHANGED <<subgraph, nodes>>
            ELSE /\ \E sg \in (IF IsWeaklyConnected(b.G) THEN {b.G}
                               ELSE SubgraphCopies(b.G, LargestCC(b.G))) :
                        /\ subgraph' = Some(sg)
                        /\ nodes' = sg.nodes
                 /\ pc' = "trials"
                 /\ UNCHANGED http_status
    /\ UNCHANGED <<scenario, region, segments, i, reversed_edge,
                   source_node, sink_node, flow_value, flow_calls, flow_logged,
                   trial, candidate, via>>
    /\ UNCHANGED auxVars

\* one iteration of `for _ in range(10)`   (lines 245-254)
SimTrial ==
    /\ pc = "trials"
    /\ trial < MaxTrials
    /\ trial' = trial + 1
    /\ \E c \in {nodes[k] : k \in 1..Len(nodes)} :
         /\ candidate' = Some(c)
         /\ LET descendants == Descendants(Val(subgraph), c) IN
              IF Accepts(descendants)
              THEN /\ source_node' = Some(c)
                   /\ \E t \in descendants : sink_node' = Some(t)
                   /\ via' = "trial"
                   /\ pc' = "selected"
              ELSE UNCHANGED <<source_node, sink_node, via, pc>>
    /\ UNCHANGED <<scenario, region, segments, i, G, reversed_edge,
                   flow_value, flow_calls, flow_logged,
                   subgraph, nodes, http_status, response>>
    /\ UNCHANGED auxVars

\* if source_node is None: ...   (lines 256-259), after the loop ran out
SimFallback ==
    /\ pc = "trials"
    /\ trial = MaxTrials
    /\ LET ends == FallbackEndpoints(nodes) IN
         /\ source_node' = Some(ends[1])
         /\ sink_node' = Some(ends[2])
    /\ via' = "fallback"
    /\ pc' = "selected"
    /\ UNCHANGED <<scenario, region, segments, i, G, reversed_edge,
                   flow_value, flow_calls, flow_logged,
                   subgraph, nodes, trial, candidate, http_status, response>>
    /\ UNCHANGED auxVars

\* graph = subgraph; flow_value = service.calculate_max_flow(graph,
\* source_node, sink_node)   (lines 262-269)
SimRunFlow ==
    /\ pc = "selected"
    /\ G' = Val(subgraph)
    /\ LET r == MaxFlowCall(Val(subgraph), source_node, sink_node) IN
         /\ flow_calls' = flow_calls + r.calls
         /\ flow_logged' = flow_logged + r.logged
         /\ flow_value' = IF r.propagated THEN None ELSE Some(r.value)
         /\ pc' = IF r.propagated THEN "responded" ELSE "metrics"
         /\ http_status' = IF r.propagated THEN "500" ELSE http_status
    /\ UNCHANGED <<scenario, region, segments, i, reversed_edge,
                   source_node, sink_node,
                   subgraph, nodes, trial, candidate, via, response>>
    /\ UNCHANGED auxVars

\* the metrics and the returned body   (lines 272-287); the field
\* clearance_time_hours is kept in hundredths of an hour
SimRespond ==
    /\ pc = "metrics"
    /\ response' = Some([scenario |-> scenario,
                         max_throughput_vph |-> Val(flow_value),
                         clearance_time_hours |-> ClearanceHundredths(Val(flow_value)),
                         gridlock_risk |-> GridlockRisk(Val(flow_value)),
                         graph_size |-> [nodes |-> Len(G.nodes),
                                         edges |-> Cardinality(Edges(G))]])
    /\ http_status' = "200"
    /\ pc' = "responded"
    /\ UNCHANGED <<scenario, region, segments, i, G, reversed_edge,
                   source_node, sink_node, flow_value, flow_calls, flow_logged,
                   subgraph, nodes, trial, candidate, via>>
    /\ UNCHANGED auxVars

NextSim == SimStart \/ SimTrial \/ SimFallback \/ SimRunFlow \/ SimRespond

\* Query results of the requests: up to MaxSegs rows, each from a node of
\* 1..MaxNode+1 to itself or to the next node id, and each either a plain
\* row of capacity 3600 or a southbound major highway without capacity
\* (which the contraflow scenario reverses), or a row without endpoints ...
SimNodes == 1..(MaxNode + 1)
SimEndpoints == {e \in SimNodes \X SimNodes : e[2] - e[1] \in {0, 1}}
SimRows ==
    {Row(None, None, Some(3600), Some(30), NullGeom, None)} \cup
    UNION {{Row(Some(e[1]), Some(e[2]), Some(3600), Some(30), NullGeom, None),
            Row(Some(e[1]), Some(e[2]), None, Some(45),
                [kind |-> "wkb", coords |-> LineS], Some(LabelMajor))}
           : e \in SimEndpoints}

\* a request arrives: nothing is built or chosen yet
SimRequest ==
    /\ i = 0
    /\ G = EmptyGraph
    /\ reversed_edge = <<>>
    /\ pc = "request"
    /\ FlowIdle
    /\ SimIdle

InitSim ==
    /\ region = RegionTampaBay
    /\ scenario \in Scenarios
    /\ \E k \in 0..MaxSegs : segments \in [1..k -> SimRows]
    /\ SimRequest
    /\ AuxIdle

SpecSim == InitSim /\ [][NextSim]_vars

\* Networks large enough for a trial to succeed: n nodes, a road 1 -> 2 and
\* roads from 2 to each of 3..n, optionally preceded by a road between two
\* nodes that touch nothing else
MaxExtra == 1       \* the large networks have MinReachable+1 .. MinReachable+1+MaxExtra nodes
PlainRow(u, v, c) == Row(Some(u), Some(v), Some(c), Some(30), NullGeom, None)
BroomRows(n) ==
    [k \in 1..(n - 1) |-> IF k = 1 THEN PlainRow(1, 2, 3600) ELSE PlainRow(2, k + 1, 1800)]
BroomSizes == {MinReachable + 1 + k : k \in 0..MaxExtra}

InitSimLarge ==
    /\ region = RegionTampaBay
    /\ scenario = "baseline"
    /\ \E n \in BroomSizes :
          \/ segments = BroomRows(n)
          \/ segments = <<PlainRow(n + 1, n + 2, 3600)>> \o BroomRows(n)
    /\ SimRequest
    /\ AuxIdle

SpecSimLarge == InitSimLarge /\ [][NextSim]_vars

\* networks of at most MinReachable + 1 nodes: the broom with exactly
\* MinReachable nodes below node 1, the broom of MinReachable nodes with a
\* road from a further node into node 1, a single road from a node to
\* itself, and up to MaxSegs short roads
BelowRows == {PlainRow(e[1], e[2], 3600) : e \in SimEndpoints}

InitSimBelow ==
    /\ region = RegionTampaBay
    /\ scenario \in {"baseline", "contraflow"}
    /\ \/ segments = BroomRows(MinReachable + 1)
       \/ segments = BroomRows(MinReachable) \o <<PlainRow(MinReachable + 1, 1, 3600)>>
       \/ \E k \in 1..MaxSegs : segments \in [1..k -> BelowRows]
    /\ SimRequest
    /\ AuxIdle

SpecSimBelow == InitSimBelow /\ [][NextSim]_vars

\* requests served with the cache never connected or connected, the server
\* holding nothing or an entry under the request's key that another writer
\* left there
InitSimCached ==
    /\ region = RegionTampaBay
    /\ scenario \in {"baseline", "contraflow"}
    /\ \E k \in 1..MaxSegs : segments \in [1..k -> BelowRows]
    /\ SimRequest
    /\ client \in {"none", "client"}
    /\ store \in {<<>>,
                  Setex(<<>>, SimulateKey(scenario, region), 3600,
                        JsonDumps(PyDict(<<PyItem(PyStr("scenario"), PyStr(scenario))>>)))}
    /\ cache_call = None
    /\ health = None
    /\ BootIdle
    /\ ConcIdle

SpecSimCached == InitSimCached /\ [][NextSim]_vars

\* Requests whose flow takes every value of a range: one road 1 -> 2 of each
\* capacity up to MaxCapacityVph and of the capacities of the documented
\* examples, and one road from node 1 to itself (flow 0)
MaxCapacityVph == 1200  \* capacities 1..MaxCapacityVph are tried
ExampleCapacities == {3600, 5000}

InitMetrics ==
    /\ region = RegionTampaBay
    /\ scenario = "baseline"
    /\ \/ \E c \in (1..MaxCapacityVph) \cup ExampleCapacities :
             segments = <<PlainRow(1, 2, c)>>
       \/ segments = <<PlainRow(1, 1, 3600)>>
    /\ SimRequest
    /\ AuxIdle

SpecMetrics == InitMetrics /\ [][NextSim]_vars

(***************************************************************************)
(* wait_for_database and initialize_database (app/db/seed.py).  `events`   *)
(* lists the calls made to the database, time.sleep, the downloader and    *)
(* the seeding steps, in order.                                            *)
(***************************************************************************)
MaxRetries == 5     \* max_retries ranges over 0..MaxRetries and the default
MaxCalls == 2       \* calls of initialize_database
DefaultMaxRetries == 30
DefaultRetryDelay == 2
BootMaxRetries == 1
BootRetryDelay == 1

Ev(kind, outcome, delay) == [kind |-> kind, outcome |-> outcome, delay |-> delay]

\* the test before time.sleep with the test left out
SleepsBeforeRetryAlways(n, max) == TRUE

\* if retries < max_retries   (line 403), on the incremented counter
SleepsBeforeRetry(n, max) == n < max

\* one iteration of `while retries < max_retries`   (lines 391-405): the
\* connection attempt succeeds, fails with OperationalError, or fails with
\* another exception, which the function does not catch
WaitAttempt ==
    /\ pc = "wait_loop"
    /\ retries < max_retries
    /\ \E outcome \in {"ok", "OperationalError", "Exception"} :
          CASE outcome = "ok" ->
                 /\ events' = Append(events, Ev("connect", outcome, 0))
                 /\ wait_result' = Some(TRUE)
                 /\ pc' = "wait_done"
                 /\ UNCHANGED retries
            [] outcome = "OperationalError" ->
                 /\ retries' = retries + 1
                 /\ events' = IF SleepsBeforeRetry(retries + 1, max_retries)
                              THEN events \o <<Ev("connect", outcome, 0),
                                               Ev("sleep", "", retry_delay)>>
                              ELSE Append(events, Ev("connect", outcome, 0))
                 /\ UNCHANGED <<wait_result, pc>>
            [] OTHER ->
                 /\ events' = Append(events, Ev("connect", outcome, 0))
                 /\ pc' = "wait_raised"
                 /\ UNCHANGED <<retries, wait_result>>
    /\ UNCHANGED <<max_retries, retry_delay, seeded, boot_result>>
    /\ UNCHANGED <<scenario, region, segments, i, G, reversed_edge,
                   source_node, sink_node, flow_value, flow_calls, flow_logged>>
    /\ UNCHANGED <<simVars, cacheVars, concVars>>

\* the loop ends without a connection: return False   (lines 407-408)
WaitGiveUp ==
    /\ pc = "wait_loop"
    /\ ~(retries < max_retries)
    /\ wait_result' = Some(FALSE)
    /\ pc' = "wait_done"
    /\ UNCHANGED <<max_retries, retry_delay, retries, events, seeded, boot_result>>
    /\ UNCHANGED <<scenario, region, segments, i, G, reversed_edge,
                   source_node, sink_node, flow_value, flow_calls, flow_logged>>
    /\ UNCHANGED <<simVars, cacheVars, concVars>>

\* the simulation core and the cache are not in use
Offline ==
    /\ scenario = "baseline"
    /\ region = RegionEmpty
    /\ segments = <<>>
    /\ i = 0
    /\ G = EmptyGraph
    /\ reversed_edge = <<>>
    /\ FlowIdle
    /\ SimIdle
    /\ CacheIdle
    /\ ConcIdle

RetryDelays == {0, 1, DefaultRetryDelay}

\* a call wait_for_database(max_retries, retry_delay), the default call
\* among them
InitWait ==
    /\ Offline
    /\ pc = "wait_loop"
    /\ max_retries \in 0..MaxRetries \cup {DefaultMaxRetries}
    /\ retry_delay \in RetryDelays
    /\ retries = 0
    /\ events = <<>>
    /\ wait_result = None
    /\ seeded = FALSE
    /\ boot_result = None

NextWait == WaitAttempt \/ WaitGiveUp

SpecWait == InitWait /\ [][NextWait]_vars

\* the function keeps running until it returns or raises
SpecWaitFair == SpecWait /\ WF_vars(NextWait)

Calls == Cardinality({k \in 1..Len(events) : events[k].kind = "initialize_database"})

\* initialize_database is called   (line 733); step 1 calls
\* wait_for_database(max_retries=1, retry_delay=1)   (line 768)
BootStart ==
    /\ pc \in {"boot_idle", "boot_done"}
    /\ Calls < MaxCalls
    /\ events' = Append(events, Ev("initialize_database", "", 0))
    /\ max_retries' = BootMaxRetries
    /\ retry_delay' = BootRetryDelay
    /\ retries' = 0
    /\ wait_result' = None
    /\ boot_result' = None
    /\ pc' = "wait_loop"
    /\ UNCHANGED seeded
    /\ UNCHANGED <<scenario, region, segments, i, G, reversed_edge,
                   source_node, sink_node, flow_value, flow_calls, flow_logged>>
    /\ UNCHANGED <<simVars, cacheVars, concVars>>

\* the end of step 1 and step 2   (lines 768-782): give up without a
\* connection, else Base.metadata.create_all
BootTables ==
    /\ pc = "wait_done"
    /\ IF wait_result = Some(FALSE)
       THEN /\ boot_result' = Some(FALSE)
            /\ pc' = "boot_done"
            /\ UNCHANGED events
       ELSE \E ok \in BOOLEAN :
            /\ events' = Append(events, Ev("create_all", IF ok THEN "ok" ELSE "raised", 0))
            /\ boot_result' = IF ok THEN boot_result ELSE Some(FALSE)
            /\ pc' = IF ok THEN "boot_check" ELSE "boot_done"
    /\ UNCHANGED <<max_retries, retry_delay, retries, wait_result, seeded>>
    /\ UNCHANGED <<scenario, region, segments, i, G, reversed_edge,
                   source_node, sink_node, flow_value, flow_calls, flow_logged>>
    /\ UNCHANGED <<simVars, cacheVars, concVars>>

\* check_database_seeded(engine)   (lines 411-468): the table state when
\* the queries are answered, False when one of them fails
CheckDatabaseSeeded(is_seeded, answered) == answered /\ is_seeded

\* step 3   (lines 785-793): download when the database is found unseeded;
\* a failure of create_engine is logged and skips the step
BootCheck ==
    /\ pc = "boot_check"
    /\ \E engine \in BOOLEAN, answered \in BOOLEAN, downloaded \in BOOLEAN :
          IF ~engine
          THEN /\ events' = Append(events, Ev("create_engine", "raised", 0))
               /\ pc' = "boot_seed"
               /\ UNCHANGED boot_result
          ELSE IF CheckDatabaseSeeded(seeded, answered)
          THEN /\ events' = Append(events, Ev("check_database_seeded", "True", 0))
               /\ pc' = "boot_seed"
               /\ UNCHANGED boot_result
          ELSE /\ events' = events \o
                      <<Ev("check_database_seeded", "False", 0),
                        Ev("download_fdot_data", IF downloaded THEN "True" ELSE "False", 0)>>
               /\ boot_result' = IF downloaded THEN boot_result ELSE Some(FALSE)
               /\ pc' = IF downloaded THEN "boot_seed" ELSE "boot_done"
    /\ UNCHANGED <<max_retries, retry_delay, retries, wait_result, seeded>>
    /\ UNCHANGED <<scenario, region, segments, i, G, reversed_edge,
                   source_node, sink_node, flow_value, flow_calls, flow_logged>>
    /\ UNCHANGED <<simVars, cacheVars, concVars>>

\* step 4 with its guard `if not seeded`
RunsEtlWhenUnseeded(is_seeded) == ~is_seeded

\* step 4   (lines 796-798): seed_database_from_tmp() is called whatever
\* step 3 found
RunsEtl(is_seeded) == TRUE

\* seed_database_from_tmp   (lines 471-514): run_etl replaces road_segments
\* (to_postgis if_exists='replace'), or finds no routes file and returns
\* False, which is ignored, or raises, which makes the step fail
BootSeed ==
    /\ pc = "boot_seed"
    /\ IF RunsEtl(seeded)
       THEN \E outcome \in {"replaced", "no_data", "raised"} :
            /\ events' = Append(events, Ev("run_etl", outcome, 0))
            /\ seeded' = IF outcome = "replaced" THEN TRUE ELSE seeded
            /\ boot_result' = IF outcome = "raised" THEN Some(FALSE) ELSE boot_result
            /\ pc' = IF outcome = "raised" THEN "boot_done" ELSE "boot_mpos"
       ELSE /\ pc' = "boot_mpos"
            /\ UNCHANGED <<events, seeded, boot_result>>
    /\ UNCHANGED <<max_retries, retry_delay, retries, wait_result>>
    /\ UNCHANGED <<scenario, region, segments, i, G, reversed_edge,
                   source_node, sink_node, flow_value, flow_calls, flow_logged>>
    /\ UNCHANGED <<simVars, cacheVars, concVars>>

\* steps 5 and 6   (lines 801-819): a failure of seed_mpos ends the call
\* with False, a failure of seed_rest_areas is logged
BootFinish ==
    /\ pc = "boot_mpos"
    /\ \E mpos \in BOOLEAN, rest \in BOOLEAN :
          IF ~mpos
          THEN /\ events' = Append(events, Ev("seed_mpos", "False", 0))
               /\ boot_result' = Some(FALSE)
          ELSE /\ events' = events \o
                      <<Ev("seed_mpos", "True", 0),
                        Ev("seed_rest_areas", IF rest THEN "True" ELSE "False", 0)>>
               /\ boot_result' = Some(TRUE)
    /\ pc' = "boot_done"
    /\ UNCHANGED <<max_retries, retry_delay, retries, wait_result, seeded>>
    /\ UNCHANGED <<scenario, region, segments, i, G, reversed_edge,
                   source_node, sink_node, flow_value, flow_calls, flow_logged>>
    /\ UNCHANGED <<simVars, cacheVars, concVars>>

\* the application starts on a database that is seeded or not
InitBoot ==
    /\ Offline
    /\ pc = "boot_idle"
    /\ max_retries = 0
    /\ retry_delay = 0
    /\ retries = 0
    /\ events = <<>>
    /\ wait_result = None
    /\ seeded \in BOOLEAN
    /\ boot_result = None

NextBoot ==
    BootStart \/ WaitAttempt \/ WaitGiveUp \/ BootTables \/ BootCheck \/ BootSeed \/ BootFinish

SpecBoot == InitBoot /\ [][NextBoot]_vars

(***************************************************************************)
(* Concurrent /simulate requests: every request runs run_simulation on its *)
(* own locals; `graphs` holds the nx.DiGraph objects and a request refers  *)
(* to its graph by position.  The rows of road_segments are read by all.   *)
(***************************************************************************)
MaxRequests == 2    \* requests in progress at the same time

\* an allocator that hands the first graph object out again
NewGraphShared(heap) ==
    IF heap = <<>>
    THEN [heap |-> <<EmptyGraph>>, ref |-> 1]
    ELSE [heap |-> heap, ref |-> 1]

\* G = nx.DiGraph()   (evacuation.py line 109): a new object per call
NewGraph(heap) == [heap |-> Append(heap, EmptyGraph), ref |-> Len(heap) + 1]

\* graph_size of the response   (routes.py lines 229-236, 281-284): the
\* sizes of the graph, or of its largest weakly connected component
GraphSize(g) ==
    LET sg == IF IsWeaklyConnected(g) THEN g
              ELSE Induced(g, LargestCC(g), g.nodes)
    IN [nodes |-> Len(sg.nodes), edges |-> Cardinality(Edges(sg))]

\* request r enters generate_network_graph   (routes.py lines 218-221)
ReqBegin(r) ==
    /\ requests[r].pc = "request"
    /\ LET a == NewGraph(graphs) IN
         /\ graphs' = a.heap
         /\ requests' = [requests EXCEPT ![r].pc = "loop", ![r].graph = a.ref]
    /\ UNCHANGED <<scenario, region, segments, i, G, reversed_edge, pc,
                   source_node, sink_node, flow_value, flow_calls, flow_logged>>
    /\ UNCHANGED <<simVars, cacheVars, bootVars>>

\* request r processes its next row   (evacuation.py lines 111-191)
ReqProcessSegment(r) ==
    /\ requests[r].pc = "loop"
    /\ requests[r].i < Len(segments)
    /\ LET q == requests[r]
           p == ProcessRow(graphs[q.graph], segments[q.i + 1], q.scenario, q.region)
       IN /\ graphs' = [graphs EXCEPT ![q.graph] = p.G]
          /\ requests' = [requests EXCEPT
                            ![r].i = q.i + 1,
                            ![r].pc = IF p.outcome = "raised" THEN "responded" ELSE "loop",
                            ![r].http_status = IF p.outcome = "raised" THEN "500" ELSE "none"]
    /\ UNCHANGED <<scenario, region, segments, i, G, reversed_edge, pc,
                   source_node, sink_node, flow_value, flow_calls, flow_logged>>
    /\ UNCHANGED <<simVars, cacheVars, bootVars>>

\* request r has its graph and answers   (routes.py lines 222-287)
ReqRespond(r) ==
    /\ requests[r].pc = "loop"
    /\ requests[r].i = Len(segments)
    /\ LET g == graphs[requests[r].graph] IN
         requests' = [requests EXCEPT
                        ![r].pc = "responded",
                        ![r].http_status = IF GraphIsEmpty(g) THEN "404" ELSE "200",
                        ![r].graph_size = IF GraphIsEmpty(g) THEN None
                                          ELSE Some(GraphSize(g))]
    /\ UNCHANGED graphs
    /\ UNCHANGED <<scenario, region, segments, i, G, reversed_edge, pc,
                   source_node, sink_node, flow_value, flow_calls, flow_logged>>
    /\ UNCHANGED <<simVars, cacheVars, bootVars>>

\* a road, a southbound major road on the opposite pair, a road elsewhere
ConcRows ==
    {PlainRow(1, 2, 3600),
     Row(Some(2), Some(1), None, Some(45), [kind |-> "wkb", coords |-> LineS], Some(LabelMajor)),
     PlainRow(3, 4, 1800)}

\* MaxRequests requests arrive for the same two rows, each with its scenario
InitConc ==
    /\ pc = "serving"
    /\ scenario = "baseline"
    /\ region = RegionEmpty
    /\ segments \in [1..2 -> ConcRows]
    /\ i = 0
    /\ G = EmptyGraph
    /\ reversed_edge = <<>>
    /\ FlowIdle
    /\ SimIdle
    /\ CacheIdle
    /\ BootIdle
    /\ requests \in [1..MaxRequests ->
                       {[scenario |-> s, region |-> RegionTampaBay, pc |-> "request",
                         i |-> 0, graph |-> 0, http_status |-> "none",
                         graph_size |-> None] : s \in {"baseline", "contraflow"}}]
    /\ graphs = <<>>

NextConc ==
    \E r \in 1..MaxRequests : ReqBegin(r) \/ ReqProcessSegment(r) \/ ReqRespond(r)

SpecConc == InitConc /\ [][NextConc]_vars

(***************************************************************************)
(* Properties.                                                             *)
(***************************************************************************)
\* a row with both endpoint ids present
Included(seg) == seg.source # None /\ seg.target # None

\* the processed rows that reached the edge insertion
Added == {k \in 1..i : Included(segments[k]) /\ ~(pc = "raised" /\ k = i)}

\* the ordered pair row k was inserted under
MappedPair(k) ==
    IF reversed_edge[k]
    THEN <<Val(segments[k].target), Val(segments[k].source)>>
    ELSE <<Val(segments[k].source), Val(segments[k].target)>>

RECURSIVE SumResolved(_)
SumResolved(K) ==
    IF K = {} THEN 0
    ELSE LET k == CHOOSE x \in K : TRUE
         IN ResolveCapacity(segments[k].capacity) + SumResolved(K \ {k})

\* C1: at every point of the loop and at return, the edges of the graph are
\* exactly the ordered pairs the included rows were mapped to (after
\* reversal), and each edge's capacity is the sum of the resolved capacities
\* of exactly the rows mapped to it.
C1_CapacitySummation ==
    pc \in {"loop", "returned"} =>
        /\ Edges(G) = {MappedPair(k) : k \in Added}
        /\ \A e \in Edges(G) :
              G.cap[e] = SumResolved({k \in Added : MappedPair(k) = e})

\* a returned graph in which a reversed row and an unreversed row share an edge
C1_Witness ==
    /\ pc = "returned"
    /\ \E k1 \in Added, k2 \in Added :
          /\ k1 # k2
          /\ MappedPair(k1) = MappedPair(k2)
          /\ reversed_edge[k1]
          /\ ~reversed_edge[k2]

\* ---- one loop iteration, seen as a step ----
\* the row a ProcessSegment step works on
Seg == segments[i + 1]
Taken == pc = "loop" /\ i < Len(segments) /\ i' = i + 1
OldCap(e) == IF e \in Edges(G) THEN G.cap[e] ELSE 0
\* the step added capacity c to edge <<u, v>> and touched nothing else
InsertedAs(u, v, c) ==
    /\ pc' = "loop"
    /\ Edges(G') = Edges(G) \cup {<<u, v>>}
    /\ G'.cap[<<u, v>>] = OldCap(<<u, v>>) + c
    /\ \A e \in Edges(G) \ {<<u, v>>} : G'.cap[e] = G.cap[e]
InsertedForward == InsertedAs(Val(Seg.source), Val(Seg.target), ResolveCapacity(Seg.capacity))
InsertedReversed == InsertedAs(Val(Seg.target), Val(Seg.source), ResolveCapacity(Seg.capacity))

\* the pair the step's row went to
NewPair ==
    IF reversed_edge'[i + 1]
    THEN <<Val(Seg.target), Val(Seg.source)>>
    ELSE <<Val(Seg.source), Val(Seg.target)>>

\* C2 (as claimed): a row whose capacity is NULL, zero or negative adds
\* exactly 1800 to its edge's capacity, a row with a positive capacity adds
\* exactly that capacity.
C2_DefaultCapacity ==
    [][(Taken /\ Included(Seg) /\ pc' = "loop") =>
          G'.cap[NewPair] - OldCap(NewPair) =
              IF Seg.capacity = None \/ Val(Seg.capacity) <= 0
              THEN DefaultCapacity ELSE Val(Seg.capacity)]_vars

\* C3: under scenario "baseline" every included row is inserted as
\* (source, target), whatever its label, geometry and region; no other edge
\* changes, and no exception is raised.
C3_BaselineNeverReverses ==
    [][(Taken /\ scenario = "baseline" /\ Included(Seg)) => InsertedForward]_vars

\* a southbound major-highway row 2 -> 1 processed under baseline, after 1 -> 2
C3_Witness ==
    /\ scenario = "baseline"
    /\ pc = "loop"
    /\ i = 2
    /\ segments[2].road_name = Some(LabelMajor)
    /\ segments[2].geom = [kind |-> "wkb", coords |-> LineS]
    /\ segments[2].source = Some(2)
    /\ segments[2].target = Some(1)
    /\ Edges(G) = {<<1, 2>>, <<2, 1>>}

\* the labels of the input set that are absent, empty or without the marker
NonMajorLabels == {None, Some(<<>>), Some(LabelToll), Some(LabelMajorRoad)}

\* C4: a row whose label is absent or lacks the major-highway marker is
\* inserted as (source, target) under every scenario, region and geometry.
C4_NonMajorNeverReversed ==
    [][(Taken /\ Seg.road_name \in NonMajorLabels /\ Included(Seg)) => InsertedForward]_vars

\* a westbound "Major Highway" row 2 -> 1 processed under contraflow in Tampa Bay
C4_Witness ==
    /\ scenario = "contraflow"
    /\ region = RegionTampaBay
    /\ pc = "loop"
    /\ i = 2
    /\ segments[2].road_name = Some(LabelMajorRoad)
    /\ segments[2].geom = [kind |-> "wkb", coords |-> LineW]
    /\ segments[2].source = Some(2)
    /\ segments[2].target = Some(1)
    /\ Edges(G) = {<<1, 2>>, <<2, 1>>}

\* the geometry has coordinates and ends south of where it starts
Southbound(geom) ==
    /\ geom.kind \in {"wkb", "shape"}
    /\ geom.coords # <<>>
    /\ geom.coords[Len(geom.coords)][2] < geom.coords[1][2]

\* C5: under "contraflow" a row with the major-highway marker and a
\* southbound geometry is inserted reversed, as (target, source), in every
\* region.
C5_SouthboundReversedEverywhere ==
    [][(Taken /\ scenario = "contraflow" /\ Seg.road_name = Some(LabelMajor)
          /\ Southbound(Seg.geom) /\ Included(Seg)) => InsertedReversed]_vars

\* the spec's case: Tampa Bay, a southbound major row 1 -> 2 ends up as 2 -> 1
C5_Witness ==
    /\ scenario = "contraflow"
    /\ region = RegionTampaBay
    /\ pc = "loop"
    /\ i = 1
    /\ segments[1].road_name = Some(LabelMajor)
    /\ Southbound(segments[1].geom)
    /\ segments[1].source = Some(1)
    /\ segments[1].target = Some(2)
    /\ Edges(G) = {<<2, 1>>}

\* the regions of the input set that name no known metro area
UnmatchedRegions == {RegionOcala, RegionEmpty}

\* C6: under "contraflow" in a region that matches no metro-area name, a
\* major-highway row that is inserted is reversed exactly when it is
\* southbound.
C6_FallbackSouthboundOnly ==
    [][(Taken /\ scenario = "contraflow" /\ region \in UnmatchedRegions
          /\ Seg.road_name = Some(LabelMajor) /\ Included(Seg) /\ pc' = "loop") =>
          IF Southbound(Seg.geom) THEN InsertedReversed ELSE InsertedForward]_vars

\* a westbound major row 2 -> 1 kept as 2 -> 1 in region "Ocala"
C6_Witness ==
    /\ scenario = "contraflow"
    /\ region = RegionOcala
    /\ pc = "loop"
    /\ i = 2
    /\ segments[2].road_name = Some(LabelMajor)
    /\ segments[2].geom = [kind |-> "wkb", coords |-> LineW]
    /\ segments[2].source = Some(2)
    /\ segments[2].target = Some(1)
    /\ Edges(G) = {<<1, 2>>, <<2, 1>>}

\* the processed rows with both endpoints, in order
IncludedPrefix == SelectSeq(SubSeq(segments, 1, i), Included)

\* C7: rows with a missing endpoint leave no trace: they never raise, the
\* node set is exactly the set of endpoints of the rows that have both
\* endpoints, and the graph (nodes, edges, capacities, costs) is the one
\* built from those rows alone.
C7_NullEndpointsSkipped ==
    /\ pc = "raised" => Included(segments[i])
    /\ pc \in {"loop", "returned"} =>
          LET rows == IncludedPrefix IN
          /\ NodeSet(G) =
                {Val(rows[k].source) : k \in 1..Len(rows)}
                \cup {Val(rows[k].target) : k \in 1..Len(rows)}
          /\ G = BuildGraph(rows, scenario, region).G

\* a returned, non-empty graph that lacks node 1 although a skipped row names it
C7_Witness ==
    /\ pc = "returned"
    /\ Edges(G) # {}
    /\ 1 \notin NodeSet(G)
    /\ \E k \in 1..i : ~Included(segments[k]) /\ Some(1) \in {segments[k].source, segments[k].target}

\* geometry that is missing, malformed or without coordinates
NoHeading(geom) == ~(geom.kind \in {"wkb", "shape"} /\ geom.coords # <<>>)

\* C8 (as claimed): no iteration raises, and under "contraflow" a
\* major-highway row whose geometry is missing, malformed or empty is
\* inserted as (source, target).
C8_NoErrorOnBadGeometry ==
    [][Taken =>
          /\ pc' = "loop"
          /\ (scenario = "contraflow" /\ Seg.road_name = Some(LabelMajor)
                /\ NoHeading(Seg.geom) /\ Included(Seg)) => InsertedForward]_vars

\* the optional node id is no node of G
NotIn(n) == n = None \/ Val(n) \notin NodeSet(G)

RECURSIVE ReachFrom(_, _)
ReachFrom(E, S) ==
    LET S2 == S \cup {e[2] : e \in {x \in E : x[1] \in S}}
    IN IF S2 = S THEN S ELSE ReachFrom(E, S2)
HasPath(g, s, t) == t \in ReachFrom(Edges(g), {s})

\* C10: for distinct nodes source, sink of the graph with no directed path
\* from source to sink, calculate_max_flow returns exactly 0.
C10_NoPathZeroFlow ==
    (pc = "flow_done" /\ ~NotIn(source_node) /\ ~NotIn(sink_node)
        /\ source_node # sink_node
        /\ ~HasPath(G, Val(source_node), Val(sink_node))) =>
        flow_value = Some(0)

\* the flow computation ran on a graph where edges enter the source and
\* leave the sink, but no path leads from source to sink
C10_Witness ==
    /\ pc = "flow_done"
    /\ flow_calls = 1
    /\ flow_logged = 0
    /\ ~NotIn(source_node) /\ ~NotIn(sink_node)
    /\ source_node # sink_node
    /\ ~HasPath(G, Val(source_node), Val(sink_node))
    /\ HasPath(G, Val(sink_node), Val(source_node))
    /\ \E e \in Edges(G) : G.cap[e] > 0 /\ e[2] = Val(source_node)

\* the sum of the capacities of the edges in E
RECURSIVE SumCap(_, _)
SumCap(g, E) ==
    IF E = {} THEN 0
    ELSE LET e == CHOOSE x \in E : TRUE IN g.cap[e] + SumCap(g, E \ {e})

\* the edges of g directly leaving the optional node n
Leaving(g, n) == {e \in Edges(g) : Some(e[1]) = n}

\* C11: for every graph and every endpoint pair, the value returned by
\* calculate_max_flow is at most the sum of the capacities of all edges
\* directly leaving source.
C11_FlowAtMostSourceCapacity ==
    pc = "flow_done" => Val(flow_value) <= SumCap(G, Leaving(G, source_node))

\* the capacity of the cut (S, nodes \ S): the capacities of the edges
\* leading from S to its complement
CutCapacity(g, S) == SumCap(g, {e \in Edges(g) : e[1] \in S /\ e[2] \notin S})

\* the source-sink cuts of g
Cuts(g, s, t) == {S \in SUBSET NodeSet(g) : s \in S /\ t \notin S}

\* the minimum source-sink cut capacity
MinCut(g, s, t) ==
    LET caps == {CutCapacity(g, S) : S \in Cuts(g, s, t)}
    IN CHOOSE m \in caps : \A c \in caps : m <= c

\* C12: when source and sink are distinct nodes of the graph,
\* calculate_max_flow returns the maximum flow value, which equals the
\* minimum source-sink cut capacity.
C12_MaxFlowIsMinCut ==
    (pc = "flow_done" /\ ~NotIn(source_node) /\ ~NotIn(sink_node)
        /\ source_node # sink_node) =>
        flow_value = Some(MinCut(G, Val(source_node), Val(sink_node)))

BuiltGraph == BuildGraph(segments, scenario, region).G

\* the chosen endpoints are distinct and no directed path leads from the
\* source to the sink in the graph handed to calculate_max_flow
NoPathBetweenEndpoints ==
    /\ source_node # None /\ sink_node # None
    /\ source_node # sink_node
    /\ ~HasPath(G, Val(source_node), Val(sink_node))

\* C14: a request whose built graph has zero nodes ends with the 404
\* empty-graph error, never with a successful result and never with the
\* generic 500, and calculate_max_flow is not invoked; a request whose
\* non-empty graph has no path between the chosen endpoints ends as a
\* successful result with flow 0.
C14_EmptyGraphIs404 ==
    /\ (pc # "request" /\ BuiltGraph.nodes = <<>>) =>
          /\ pc = "responded"
          /\ http_status = "404"
          /\ response = None
          /\ flow_value = None /\ flow_calls = 0
    /\ (pc = "responded" /\ BuiltGraph.nodes # <<>> /\ NoPathBetweenEndpoints) =>
          /\ http_status = "200"
          /\ response # None
          /\ Val(response).max_throughput_vph = 0

\* a query result with rows, none of which has both endpoints, answered 404
C14_Witness ==
    /\ pc = "responded"
    /\ http_status = "404"
    /\ Len(segments) > 0
    /\ BuiltGraph.nodes = <<>>

\* the edges of E together with their reversals
Sym(E) == E \cup {<<e[2], e[1]>> : e \in E}

\* the weakly connected component of node n in g
ComponentOf(g, n) == ReachFrom(Sym(Edges(g)), {n})
ComponentSets(g) == {ComponentOf(g, n) : n \in NodeSet(g)}
WeaklyConnected(g) == \A n \in NodeSet(g) : ComponentOf(g, n) = NodeSet(g)

\* sg has exactly the nodes ns and the edges of g between them, with the
\* capacities they have in g
IsInducedOn(sg, g, ns) ==
    /\ NodeSet(sg) = ns
    /\ Len(sg.nodes) = Cardinality(ns)
    /\ Edges(sg) = {e \in Edges(g) : e[1] \in ns /\ e[2] \in ns}
    /\ \A e \in Edges(sg) : sg.cap[e] = g.cap[e]

\* C15: if the built graph is not weakly connected, endpoint selection and
\* the max-flow computation run on the node-induced subgraph of a largest
\* weakly connected component, both endpoints are nodes of it and the
\* reported graph_size counts are its counts; if the built graph is weakly
\* connected, the full graph is used and reported.
C15_LargestComponentUsed ==
    subgraph # None =>
        LET full == BuiltGraph
            sg == Val(subgraph)
        IN /\ IF WeaklyConnected(full) THEN sg = full
              ELSE /\ NodeSet(sg) \in ComponentSets(full)
                   /\ \A c \in ComponentSets(full) :
                          Cardinality(c) <= Cardinality(NodeSet(sg))
                   /\ IsInducedOn(sg, full, NodeSet(sg))
           /\ candidate # None => Val(candidate) \in NodeSet(sg)
           /\ source_node # None =>
                 (Val(source_node) \in NodeSet(sg) /\ Val(sink_node) \in NodeSet(sg))
           /\ flow_value # None => G = sg
           /\ response # None =>
                 Val(response).graph_size =
                     [nodes |-> Cardinality(NodeSet(sg)),
                      edges |-> Cardinality(Edges(sg))]

\* a successful response for a built graph with two components of
\* different sizes, the larger one holding edges
C15_Witness ==
    /\ pc = "responded"
    /\ response # None
    /\ \E c \in ComponentSets(BuiltGraph) :
          Cardinality(c) < Cardinality(NodeSet(Val(subgraph)))
    /\ Val(response).graph_size.nodes < Len(BuiltGraph.nodes)
    /\ Val(response).graph_size.edges > 0
    /\ Val(response).graph_size.edges < Cardinality(Edges(BuiltGraph))

\* the nodes other than n that a directed traversal of g reaches from n
ReachableFrom(g, n) == ReachFrom(Edges(g), {n}) \ {n}

C17_FallbackEndpoints ==
    /\ via = "fallback" =>
          /\ trial = 10
          /\ nodes = Val(subgraph).nodes
          /\ source_node = Some(nodes[1])
          /\ sink_node = Some(nodes[Len(nodes)])
          /\ flow_value # None => G.nodes = nodes
    /\ (trial = 10 /\ pc # "trials"
          /\ Cardinality(ReachableFrom(Val(subgraph), Val(candidate))) <= 50) =>
          via = "fallback"

\* ten trials failed on a network where node 1 would have been accepted;
\* the graph used is the large component, whose listing differs from that
\* of the built graph, and the last candidate drawn was neither endpoint
C17_Witness ==
    /\ pc = "responded"
    /\ via = "fallback"
    /\ Cardinality(ReachableFrom(Val(subgraph), nodes[1])) > 50
    /\ nodes[1] # BuiltGraph.nodes[1]
    /\ source_node # sink_node
    /\ candidate # source_node /\ candidate # sink_node
    /\ Val(response).max_throughput_vph > 0

\* the flow value and the clearance time (in hundredths of an hour) of the
\* response
RespFlow == Val(response).max_throughput_vph
RespClearance == Val(response).clearance_time_hours

\* C18 as stated: clearance_time_hours is 24.0 when flow <= 0 and exactly
\* 1_000_000 / flow when flow > 0.
C18_ClearanceExact ==
    response # None =>
        IF RespFlow <= 0 THEN RespClearance = 2400
        ELSE RespClearance * RespFlow = 100 * 1000000

\* C18 (amended): clearance_time_hours is 24.0 when flow <= 0 and
\* 1_000_000 / flow rounded to the nearest hundredth of an hour when
\* flow > 0 (flow 5000 gives 200.0, flow 500 gives 2000.0, flow 0 gives 24.0).
C18_ClearanceRounded ==
    response # None =>
        /\ IF RespFlow <= 0 THEN RespClearance = 2400
           ELSE LET err == 100 * 1000000 - RespClearance * RespFlow
                IN /\ 2 * err <= RespFlow
                   /\ -2 * err <= RespFlow
        /\ RespFlow = 5000 => RespClearance = 20000
        /\ RespFlow = 500 => RespClearance = 200000
        /\ RespFlow = 0 => RespClearance = 2400

\* flow 3600: the quotient 277.777... is reported as 277.78
C18_Witness ==
    /\ pc = "responded"
    /\ response # None
    /\ RespFlow = 3600
    /\ RespClearance = 27778

BaselineBuild == BuildGraph(segments, "baseline", region)

\* C20: for every scenario value other than "contraflow" the graph built
\* from the same segments and region is identical to the baseline graph
\* (no segment reversed), and the request completes normally: it is
\* answered like the baseline request, never with a server error.
C20_UnknownScenarioIsBaseline ==
    scenario # "contraflow" =>
        /\ BuildGraph(segments, scenario, region) = BaselineBuild
        /\ pc \in {"trials", "selected"} => G = BaselineBuild.G
        /\ http_status # "500"
        /\ pc = "responded" =>
              IF BaselineBuild.G.nodes = <<>>
              THEN http_status = "404"
              ELSE /\ http_status = "200"
                   /\ response # None
                   /\ Val(response).scenario = scenario

\* a request with the unrecognized scenario "storm" answered successfully,
\* for rows that the contraflow scenario would have built into another graph
C20_Witness ==
    /\ scenario = "storm"
    /\ pc = "responded"
    /\ http_status = "200"
    /\ Val(response).max_throughput_vph > 0
    /\ BuildGraph(segments, "contraflow", region).G # BaselineBuild.G

\* C26: under "contraflow" in a region whose name contains "Tampa" (or
\* "Sarasota"), a kept major-highway row is inserted reversed if it is
\* southbound and in its original orientation if it is not.
C26_TampaSouthboundOnly ==
    [][(Taken /\ scenario = "contraflow" /\ region = RegionTampaBay
          /\ Seg.road_name = Some(LabelMajor) /\ Included(Seg) /\ pc' = "loop") =>
          IF Southbound(Seg.geom) THEN InsertedReversed ELSE InsertedForward]_vars

\* C28: the graph returned for "contraflow" has the node set of the graph
\* built for "baseline" from the same rows and region, and the same total
\* edge capacity.
C28_ContraflowReorientsOnly ==
    (scenario = "contraflow" /\ pc = "returned") =>
        /\ ~BaselineBuild.raised
        /\ NodeSet(G) = NodeSet(BaselineBuild.G)
        /\ SumCap(G, Edges(G)) = SumCap(BaselineBuild.G, Edges(BaselineBuild.G))

\* a contraflow graph in which the reversed second row merged into the edge
\* of the first, so that it has one edge where the baseline graph has two
C28_Witness ==
    /\ scenario = "contraflow"
    /\ pc = "returned"
    /\ Len(segments) = 2
    /\ reversed_edge[2]
    /\ Cardinality(Edges(G)) = 1
    /\ Cardinality(Edges(BaselineBuild.G)) = 2

\* the orders in which n rows can be processed
Orders(n) == {p \in [1..n -> 1..n] : \A a, b \in 1..n : a # b => p[a] # p[b]}

Reordered(p) == [k \in 1..Len(segments) |-> segments[p[k]]]

\* the ordered pair a kept row is inserted under
PairOf(seg) ==
    IF ReversalDecision(seg, scenario, region) = "reverse"
    THEN <<Val(seg.target), Val(seg.source)>>
    ELSE <<Val(seg.source), Val(seg.target)>>

\* the cost_time of the first row of segs inserted under the pair e
FirstCost(segs, e) ==
    LET K == {k \in 1..Len(segs) : Included(segs[k]) /\ PairOf(segs[k]) = e}
        first == CHOOSE k \in K : \A j \in K : k <= j
    IN segs[first].cost_time

\* C29: in whatever order the rows are processed, the builder returns the
\* node set, the edge set and the edge capacities of the graph it returned
\* for the given order, and the cost of each edge is the cost_time of the
\* first row of that order inserted under the edge's pair.
C29_OrderIndependent ==
    pc = "returned" =>
        \A p \in Orders(Len(segments)) :
            LET h == BuildGraph(Reordered(p), scenario, region) IN
                /\ ~h.raised
                /\ NodeSet(h.G) = NodeSet(G)
                /\ h.G.cap = G.cap
                /\ \A e \in Edges(h.G) : h.G.cost[e] = FirstCost(Reordered(p), e)

\* a returned graph with a merged edge whose cost another processing order
\* of the same rows would have set differently
C29_Witness ==
    /\ pc = "returned"
    /\ \E e \in Edges(G) : G.cap[e] = 3600 + DefaultCapacity
    /\ \E p \in Orders(Len(segments)) :
          BuildGraph(Reordered(p), scenario, region).G.cost # G.cost

\* the answer run_simulation gives when the endpoints of the graph sg are
\* its first and last listed nodes
FallbackAnswer(sg) ==
    LET r == MaxFlowCall(sg, Some(sg.nodes[1]), Some(sg.nodes[Len(sg.nodes)]))
    IN IF r.propagated
       THEN [http_status |-> "500", response |-> None]
       ELSE [http_status |-> "200",
             response |-> Some([scenario |-> scenario,
                                max_throughput_vph |-> r.value,
                                clearance_time_hours |-> ClearanceHundredths(r.value),
                                gridlock_risk |-> GridlockRisk(r.value),
                                graph_size |-> [nodes |-> Len(sg.nodes),
                                                edges |-> Cardinality(Edges(sg))]])]

CallMade == cache_call' # None /\ cache_call' # cache_call
Call == Val(cache_call')
Prior == Val(cache_call)

\* a set whose json.dumps and client.setex both returned
Stored(c) == c.op = "set" /\ c.client # "none" /\ ~c.fault /\ Serializable(c.value)

\* a get that follows a storing set of the same key and finds its entry
FoundAfterSet ==
    /\ CallMade
    /\ Call.op = "get"
    /\ cache_call # None
    /\ Stored(Prior)
    /\ Prior.key = Call.key
    /\ Call.client # "none"
    /\ ~Call.fault
    /\ Call.key \in DOMAIN store

\* get and set never raise; without a client get returns None and set
\* leaves the server alone; a failing client operation gives None from get
\* and a normal return from set; a key with no entry gives None
Transparent ==
    CallMade =>
        /\ ~Call.raised
        /\ (Call.client = "none" \/ Call.fault) =>
              /\ store' = store
              /\ Call.op = "get" => Call.result = PyNone
        /\ (Call.op = "get" /\ Call.key \notin DOMAIN store) => Call.result = PyNone

RECURSIVE JsonNative(_)
JsonNative(v) ==
    CASE v.tag \in {"NoneType", "str", "int"} -> TRUE
      [] v.tag = "list" -> \A k \in 1..Len(v.items) : JsonNative(v.items[k])
      [] v.tag = "dict" ->
            \A k \in 1..Len(v.items) :
                /\ v.items[k].items[1].tag = "str"
                /\ JsonNative(v.items[k].items[2])
      [] OTHER -> FALSE

C24_OverallHealth ==
    health # None =>
        LET h == Val(health)
            all_healthy == h.database = "healthy" /\ h.cache = "healthy"
        IN /\ (h.status = "unhealthy") <=> (h.database = "unhealthy")
           /\ (h.status = "healthy") => all_healthy
           /\ (h.database # "unhealthy" /\ ~all_healthy) => h.status = "degraded"

\* C23: when a /simulate request that missed the cache has been answered
\* successfully and the cache is connected, the server holds an entry under
\* the request's key with TTL 3600 whose content is the body returned.
C23_ResultStored ==
    (pc = "responded" /\ http_status = "200" /\ via # "none" /\ client = "client") =>
        /\ SimulateKey(scenario, region) \in DOMAIN store
        /\ store[SimulateKey(scenario, region)].ttl = 3600

\* the connection attempts made so far, and those that failed with
\* OperationalError
Attempts == {k \in 1..Len(events) : events[k].kind = "connect"}
FailedAttempts == {k \in Attempts : events[k].outcome = "OperationalError"}

WaitSafe ==
    /\ Cardinality(Attempts) <= max_retries
    /\ \A k \in Attempts : events[k].outcome # "OperationalError" => k = Len(events)
    /\ wait_result = Some(TRUE) =>
          /\ events # <<>>
          /\ events[Len(events)] = Ev("connect", "ok", 0)
    /\ wait_result = Some(FALSE) <=>
          /\ pc = "wait_done"
          /\ Cardinality(FailedAttempts) = max_retries
          /\ Cardinality(Attempts) = max_retries
    /\ \A k \in 1..Len(events) :
          /\ events[k].kind = "sleep" =>
                /\ events[k].delay = retry_delay
                /\ k > 1 /\ k - 1 \in FailedAttempts
                /\ Cardinality({j \in FailedAttempts : j < k}) < max_retries
          /\ (k \in FailedAttempts
                /\ Cardinality({j \in FailedAttempts : j <= k}) < max_retries) =>
                /\ k < Len(events)
                /\ events[k + 1].kind = "sleep"

LastCheck(k) ==
    LET K == {j \in 1..(k - 1) : events[j].kind \in {"check_database_seeded", "create_engine"}}
    IN IF K = {} THEN "none"
       ELSE events[CHOOSE j \in K : \A x \in K : x <= j].outcome

\* C27: initialize_database downloads FDOT data and runs the ETL pipeline
\* only in a call in which check_database_seeded found the database
\* unseeded; a call that finds it seeded does neither.
C27_SeedsOnlyWhenNeeded ==
    \A k \in 1..Len(events) :
        events[k].kind \in {"download_fdot_data", "run_etl"} => LastCheck(k) = "False"

\* what request r obtains when it is the only request
Alone(r) == BuildGraph(segments, requests[r].scenario, requests[r].region)

\* C21: under every interleaving no two requests hold the same graph
\* object, the graph of a request in its loop is the graph built alone from
\* the rows it has processed, and the graph and graph_size of an answered
\* request are those it obtains running alone on the same rows.
C21_RequestsIsolated ==
    \A r \in DOMAIN requests :
        LET q == requests[r] IN
            /\ \A o \in DOMAIN requests :
                  (o # r /\ q.graph # 0) => requests[o].graph # q.graph
            /\ q.pc = "loop" =>
                  graphs[q.graph] =
                      BuildGraph(SubSeq(segments, 1, q.i), q.scenario, q.region).G
            /\ (q.pc = "responded" /\ q.http_status = "200") =>
                  /\ ~Alone(r).raised
                  /\ graphs[q.graph] = Alone(r).G
                  /\ q.graph_size = Some(GraphSize(Alone(r).G))

\* two answered requests for the same rows, one baseline and one
\* contraflow, the second of which began first, with different graphs
C21_Witness ==
    /\ requests # <<>>
    /\ requests[1].pc = "responded"
    /\ requests[2].pc = "responded"
    /\ requests[1].scenario = "baseline"
    /\ requests[2].scenario = "contraflow"
    /\ requests[1].graph = 2
    /\ graphs[1] # graphs[2]
    /\ requests[1].graph_size # requests[2].graph_size

====
